---- MODULE Spec2Model ----
(***************************************************************************)
(* Wall-drawing interaction of the VASE engine (RendererLayer).            *)
(*                                                                         *)
(* Numbers.  The code computes in IEEE doubles; here every length and      *)
(* coordinate is a fixed-point integer in units of 1e-4 world units, so    *)
(* 0.01 is 100, 0.001 is 10 and the wall thickness 0.3 is 3000.  A product *)
(* or square root that is not an integer is rounded to the nearest unit,   *)
(* as a double operation rounds to the nearest double.  Comparisons that   *)
(* real arithmetic decides exactly (a length against a threshold, the      *)
(* octant of a direction) are decided exactly, on squares.                 *)
(* The y coordinate of a ground point is always 0 and is left out.         *)
(***************************************************************************)
EXTENDS Integers, Sequences, FiniteSets, TLC

(***************************************************************************)
(* Program constants, in fixed-point units.                                *)
(***************************************************************************)
BOX_THICKNESS == 3000
GRID_STEP == 100
MIN_LENGTH == 100
TOLERANCE == 10
DEGENERATE_LENGTH == 10

(***************************************************************************)
(* Bounds of the model.                                                    *)
(***************************************************************************)
MaxWalls == 2

(***************************************************************************)
(* Values of the inputs.                                                   *)
(***************************************************************************)
Null == [null |-> TRUE]
Undefined == [undefined |-> TRUE]
Flag(b) == [value |-> b]

Pt(px, pz) == [x |-> px, z |-> pz]

\* Raw intersection points of the pointer ray with the ground plane, before
\* grid snapping; Null is a ray that misses the plane.  The four points
\* give a snapped direction (the first to the second), two parallel walls
\* far apart (z = 1000 and z = 8000), crossing diagonals and chained walls.
RawHits ==
  { Pt(1003, 997), Pt(9000, 1600), Pt(9000, 8000), Pt(1000, 8000) }

Hits == RawHits \cup {Null}
MoveHits == { Pt(1003, 997), Pt(9000, 1600), Null }
Buttons == {0, 1, 2}
Keys == {"d", "D", "Escape"}
EnabledFlags == {Undefined, Flag(TRUE), Flag(FALSE)}

(***************************************************************************)
(* Arithmetic.                                                             *)
(***************************************************************************)
Abs(n) == IF n < 0 THEN -n ELSE n

\* Math.round: nearest integer, a tie goes up.
RoundDiv(n, d) == (2 * n + d) \div (2 * d)

\* Newton's iteration from a start x >= sqrt(n): the floor of sqrt(n), n > 0
RECURSIVE SqrtNewton(_, _)
SqrtNewton(n, x) ==
  LET y == (x + n \div x) \div 2
  IN  IF y >= x THEN x ELSE SqrtNewton(n, y)

\* floor of the square root
SqrtFloor(n) ==
  CASE n = 0 -> 0
    [] n > 0 /\ n < 1000000 -> SqrtNewton(n, 1000)
    [] n >= 1000000 /\ n < 100000000 -> SqrtNewton(n, 10000)
    [] n >= 100000000 -> SqrtNewton(n, 46340)

\* Math.sqrt, rounded to the nearest unit
Sqrt(n) == LET r == SqrtFloor(n) IN IF n <= r * r + r THEN r ELSE r + 1

\* len * (sqrt(2)/2), rounded to the nearest unit
MulSqrtHalf(len) == (SqrtFloor(2 * len * len) + 1) \div 2

\* len * Math.cos(deg) and len * Math.sin(deg) for deg a multiple of 45
MulCos(len, deg) ==
  LET m == deg % 360
  IN  CASE m = 0 -> len
        [] m = 180 -> -len
        [] m \in {90, 270} -> 0
        [] m \in {45, 315} -> MulSqrtHalf(len)
        [] m \in {135, 225} -> -MulSqrtHalf(len)

MulSin(len, deg) == MulCos(len, deg - 90)

(***************************************************************************)
(* Geometry helpers of RendererLayer.                                      *)
(***************************************************************************)
\* Math.sqrt(dx*dx + dz*dz) < limit, decided exactly
LengthBelow(dx, dz, limit) == dx * dx + dz * dz < limit * limit

pointsAreEqual(p1, p2) ==
  /\ Abs(p1.x - p2.x) < TOLERANCE
  /\ Abs(p1.z - p2.z) < TOLERANCE

\* A mesh is the box the code adds to the scene: geometry.parameters.width,
\* position (x, z) and rotation.y, the rotation in degrees.
Mesh(len, midX, midZ, rot) ==
  [width |-> len, position |-> Pt(midX, midZ), rotation |-> rot]

getBoxStartPoint(box) ==
  LET halfLength == box.width \div 2
      angle == -box.rotation
  IN  Pt(box.position.x - MulCos(halfLength, angle),
         box.position.z - MulSin(halfLength, angle))

getBoxEndPoint(box) ==
  LET halfLength == box.width \div 2
      angle == -box.rotation
  IN  Pt(box.position.x + MulCos(halfLength, angle),
         box.position.z + MulSin(halfLength, angle))

\* The four corners <<c0, c1, c2, c3>>; perpX * halfThickness is
\* -dz / length * halfThickness, rounded to the nearest unit.
getWallCorners(start, end) ==
  LET dx == end.x - start.x
      dz == end.z - start.z
      length == Sqrt(dx * dx + dz * dz)
      halfThickness == BOX_THICKNESS \div 2
      px == RoundDiv(-dz * halfThickness, length)
      pz == RoundDiv(dx * halfThickness, length)
  IN  IF LengthBelow(dx, dz, DEGENERATE_LENGTH)
      THEN << start, start, start, start >>
      ELSE << Pt(start.x + px, start.z + pz),
              Pt(start.x - px, start.z - pz),
              Pt(end.x - px, end.z - pz),
              Pt(end.x + px, end.z + pz) >>

\* The perpendicular of the edge p1 -> p2.  The code normalises it to unit
\* length; the comparison of projection intervals does not depend on the
\* (positive) length of the axis, and the axis is kept unnormalised here.
getEdgeNormal(p1, p2) == Pt(-(p2.z - p1.z), p2.x - p1.x)

Dot(p, axis) == p.x * axis.x + p.z * axis.z

Min4(a, b, c, d) ==
  LET m1 == IF a < b THEN a ELSE b
      m2 == IF c < d THEN c ELSE d
  IN  IF m1 < m2 THEN m1 ELSE m2

Max4(a, b, c, d) ==
  LET m1 == IF a > b THEN a ELSE b
      m2 == IF c > d THEN c ELSE d
  IN  IF m1 > m2 THEN m1 ELSE m2

projectRectangle(rect, axis) ==
  [min |-> Min4(Dot(rect[1], axis), Dot(rect[2], axis),
                Dot(rect[3], axis), Dot(rect[4], axis)),
   max |-> Max4(Dot(rect[1], axis), Dot(rect[2], axis),
                Dot(rect[3], axis), Dot(rect[4], axis))]

\* Variant: intervals that meet in a single value count as separated
Separates_Closed(rect1, rect2, axis) ==
  LET projection1 == projectRectangle(rect1, axis)
      projection2 == projectRectangle(rect2, axis)
  IN  \/ projection1.max <= projection2.min
      \/ projection2.max <= projection1.min

\* TRUE when the axis separates the two rectangles
Separates(rect1, rect2, axis) ==
  LET projection1 == projectRectangle(rect1, axis)
      projection2 == projectRectangle(rect2, axis)
  IN  \/ projection1.max < projection2.min
      \/ projection2.max < projection1.min

\* Variant: only the two axes of the first rectangle are tested
rectanglesIntersect_OwnAxes(rect1, rect2) ==
  LET axes == << getEdgeNormal(rect1[1], rect1[2]),
                 getEdgeNormal(rect1[2], rect1[3]) >>
  IN  \A i \in 1..2 : ~Separates(rect1, rect2, axes[i])

\* Variant: overlapping projections on one axis are taken as intersection
rectanglesIntersect_AnyAxis(rect1, rect2) ==
  LET axes == << getEdgeNormal(rect1[1], rect1[2]),
                 getEdgeNormal(rect1[2], rect1[3]),
                 getEdgeNormal(rect2[1], rect2[2]),
                 getEdgeNormal(rect2[2], rect2[3]) >>
  IN  \E i \in 1..4 : ~Separates(rect1, rect2, axes[i])

\* Variant: the rectangles intersect only when a corner of one lies in the
\* other
rectanglesIntersect_CornerInside(rect1, rect2) ==
  LET within(rect, p) ==
        \A k \in 1..2 :
          LET axis == getEdgeNormal(rect[k], rect[k + 1])
              projection == projectRectangle(rect, axis)
          IN  projection.min <= Dot(p, axis) /\ Dot(p, axis) <= projection.max
  IN  \E i \in 1..4 : within(rect1, rect2[i]) \/ within(rect2, rect1[i])

rectanglesIntersect(rect1, rect2) ==
  LET axes == << getEdgeNormal(rect1[1], rect1[2]),
                 getEdgeNormal(rect1[2], rect1[3]),
                 getEdgeNormal(rect2[1], rect2[2]),
                 getEdgeNormal(rect2[2], rect2[3]) >>
  IN  \A i \in 1..4 : ~Separates(rect1, rect2, axes[i])

\* The endpoint exemption of checkWallIntersection
\* Variant: only the candidate's start point is compared with the wall's ends
SharesEndpoint_StartOnly(start, end, boxStart, boxEnd) ==
  \/ pointsAreEqual(start, boxStart)
  \/ pointsAreEqual(start, boxEnd)

SharesEndpoint(start, end, boxStart, boxEnd) ==
  \/ pointsAreEqual(start, boxStart)
  \/ pointsAreEqual(start, boxEnd)
  \/ pointsAreEqual(end, boxStart)
  \/ pointsAreEqual(end, boxEnd)

\* Variant: the corners of the existing wall built from its start point twice
checkWallIntersection_StartTwice(start, end, boxes) ==
  LET newWallCorners == getWallCorners(start, end)
  IN  \E i \in 1..Len(boxes) :
        LET boxStart == getBoxStartPoint(boxes[i])
            boxEnd == getBoxEndPoint(boxes[i])
        IN  /\ ~SharesEndpoint(start, end, boxStart, boxEnd)
            /\ rectanglesIntersect(newWallCorners,
                                   getWallCorners(boxStart, boxStart))

\* Variant: walls sharing an endpoint with the candidate are tested as well
checkWallIntersection_NoExemption(start, end, boxes) ==
  LET newWallCorners == getWallCorners(start, end)
  IN  \E i \in 1..Len(boxes) :
        rectanglesIntersect(newWallCorners,
                            getWallCorners(getBoxStartPoint(boxes[i]),
                                           getBoxEndPoint(boxes[i])))

checkWallIntersection(start, end, boxes) ==
  LET newWallCorners == getWallCorners(start, end)
  IN  \E i \in 1..Len(boxes) :
        LET boxStart == getBoxStartPoint(boxes[i])
            boxEnd == getBoxEndPoint(boxes[i])
        IN  /\ ~SharesEndpoint(start, end, boxStart, boxEnd)
            /\ rectanglesIntersect(newWallCorners,
                                   getWallCorners(boxStart, boxEnd))

\* Variant: the hit point returned without snapping
getGroundPosition_NoSnap(hit) == hit

\* Variant: the untouched result vector (the origin) returned on a miss
getGroundPosition_OriginOnMiss(hit) ==
  IF hit = Null THEN Pt(0, 0)
  ELSE Pt(RoundDiv(hit.x, GRID_STEP) * GRID_STEP,
          RoundDiv(hit.z, GRID_STEP) * GRID_STEP)

\* The ground pick: the hit point of the ray snapped to the 0.01 grid, or
\* null when the ray misses the plane.
\* Variant: the hit snapped to the centre of its grid cell
getGroundPosition_CellCentre(hit) ==
  IF hit = Null THEN Null
  ELSE Pt(RoundDiv(hit.x, GRID_STEP) * GRID_STEP + GRID_STEP \div 2,
          RoundDiv(hit.z, GRID_STEP) * GRID_STEP + GRID_STEP \div 2)

getGroundPosition(hit) ==
  IF hit = Null THEN Null
  ELSE Pt(RoundDiv(hit.x, GRID_STEP) * GRID_STEP,
          RoundDiv(hit.z, GRID_STEP) * GRID_STEP)

\* Math.round(Math.atan2(dz, dx) * (180 / Math.PI) / 45) * 45.  The
\* direction is within 22.5 degrees of the x axis exactly when
\* (|dx| + |dz|)^2 < 2 dx^2, and of the z axis when (|dx| + |dz|)^2 < 2 dz^2;
\* no integer direction lies on a boundary.
\* Variant: Math.floor in place of Math.round, the multiple of 45 below
snappedAngleDegrees_Floor(dx, dz) ==
  CASE dz >= 0 /\ dx > 0 -> IF dz < dx THEN 0 ELSE 45
    [] dz >= 0 /\ dx <= 0 ->
         IF dz > -dx THEN 90 ELSE IF dz > 0 THEN 135 ELSE 180
    [] dz < 0 /\ dx < 0 -> IF -dz < -dx THEN -180 ELSE -135
    [] dz < 0 /\ dx >= 0 -> IF -dz > dx THEN -90 ELSE -45

snappedAngleDegrees(dx, dz) ==
  LET s == (Abs(dx) + Abs(dz)) * (Abs(dx) + Abs(dz))
  IN  CASE s < 2 * dx * dx ->
             IF dx > 0 THEN 0 ELSE IF dz >= 0 THEN 180 ELSE -180
        [] s < 2 * dz * dz -> IF dz > 0 THEN 90 ELSE -90
        [] OTHER ->
             IF dx > 0 THEN (IF dz > 0 THEN 45 ELSE -45)
                       ELSE (IF dz > 0 THEN 135 ELSE -135)

\* The end point recomputed at the snapped angle, the length preserved.
\* Variant: the end point projected on the snapped direction, the length
\* not kept
snappedEnd_Projected(start, end) ==
  LET dx == end.x - start.x
      dz == end.z - start.z
      snappedAngle == snappedAngleDegrees(dx, dz)
      ux == MulCos(1, snappedAngle)
      uz == MulSin(1, snappedAngle)
      t == (dx * ux + dz * uz) \div (ux * ux + uz * uz)
  IN  Pt(start.x + t * ux, start.z + t * uz)

snappedEnd(start, end) ==
  LET dx == end.x - start.x
      dz == end.z - start.z
      length == Sqrt(dx * dx + dz * dz)
      snappedAngle == snappedAngleDegrees(dx, dz)
  IN  Pt(start.x + MulCos(length, snappedAngle),
         start.z + MulSin(length, snappedAngle))

\* The box built between start and the snapped end
BoxBetween(start, end) ==
  LET dx == end.x - start.x
      dz == end.z - start.z
      length == Sqrt(dx * dx + dz * dz)
      snappedAngle == snappedAngleDegrees(dx, dz)
      se == snappedEnd(start, end)
  IN  Mesh(length, (start.x + se.x) \div 2, (start.z + se.z) \div 2,
           -snappedAngle)

(***************************************************************************)
(* State of the RendererLayer and of the canvas cursor.                    *)
(***************************************************************************)
VARIABLES
  drawMode,        \* RendererLayer.drawMode
  startPosition,   \* RendererLayer.startPosition, a point or Null
  previewMesh,     \* RendererLayer.previewMesh, a mesh or Null
  createdBoxes,    \* RendererLayer.createdBoxes, the committed walls
  controlsEnabled, \* OrbitControls.enabled
  cursor,          \* canvas.style.cursor, set on CURSOR_CHANGE
  log,             \* console messages of the last handled event
  lastEvent,       \* the last event delivered on the bus
  chainedFrom      \* the end point of the segment committed last, while only
                   \* pointer moves and clicks of buttons 0 and 1 followed
                   \* it; Null otherwise

rendererVars == << drawMode, startPosition, previewMesh, createdBoxes,
                   controlsEnabled, cursor, log, lastEvent, chainedFrom >>

\* The snapping functions applied to one input, over and over: the state of
\* the specification SnapSpec.
VARIABLES
  origin,          \* the start point handed to the snapping code, or Null
  rawHit,          \* the raw hit point of the pointer ray, or Null
  gridded,         \* results of the grid snap applied 1, 2, ... times
  angled,          \* result and wall of createFinalBox applied 1, 2, ... times
  preview          \* the mesh updatePreviewBox builds for the input, or Null

snapVars == << origin, rawHit, gridded, angled, preview >>

\* The EventBus and the emits in progress on it: the state of the
\* specification BusSpec.
VARIABLES
  listeners,       \* EventBus.listeners: event type -> callbacks in order
  onceListeners,   \* EventBus.onceListeners: event type -> callbacks in order
  frames,          \* the calls of emit in progress, the innermost last
  invoked,         \* registrations invoked by the outermost emit
  atStart,         \* registrations of its event type when that emit began
  unsubscribed,    \* registrations whose unsubscribe function was called
  fired,           \* times a once registration was invoked since once()
  errors,          \* registrations whose error emit caught and logged
  busEvent         \* the last call made on the bus or by it

busVars == << listeners, onceListeners, frames, invoked, atStart,
              unsubscribed, fired, errors, busEvent >>

\* The LayerStack, the layers pushed on it and their subscriptions on the
\* EventBus: the state of the specification StackSpec.
VARIABLES
  layers,            \* LayerStack.layers
  layerInsertIndex,  \* LayerStack.layerInsertIndex
  pushedAs,          \* for each element of layers: pushed by which call, and
                     \* its rank by time of push among the elements
  pending,           \* layers whose onAttach waits at its await
  unsubscribers,     \* BaseLayer.unsubscribers of each layer
  detached,          \* layers whose onDetach has run since their last push
  stackEvent         \* the last call made on the stack

stackVars == << layers, layerInsertIndex, pushedAs, pending,
                unsubscribers, detached, stackEvent >>

\* The editor page around the engine: the state of the specification
\* EditorSpec, together with the layer's.
VARIABLES
  isDrawMode         \* +page.svelte: the flag behind the draw-mode button

editorVars == << isDrawMode >>

\* WebPlatform and the browser's list of animation frame callbacks: the
\* state of the specification PlatformSpec.
VARIABLES
  animationFrameId,  \* WebPlatform.animationFrameId, NoFrame when undefined
  animationCallback, \* WebPlatform.animationCallback, named by what it does
  requested,         \* ids of the frames requested, not yet run or cancelled
  nextFrameId,       \* the id the next requestAnimationFrame returns
  listening,         \* the DOM listeners of the platform are attached
  stopped,           \* stopAnimationLoop has returned, no start since
  disposed,          \* dispose has returned, no start since
  did                \* what the last step did, in order

platformVars == << animationFrameId, animationCallback, requested,
                   nextFrameId, listening, stopped, disposed, did >>

\* The variables each specification leaves alone
outsideRenderer == << snapVars, busVars, stackVars, editorVars, platformVars >>
outsideSnap == << rendererVars, busVars, stackVars, editorVars, platformVars >>
outsideBus == << rendererVars, snapVars, stackVars, editorVars, platformVars >>
outsideStack == << rendererVars, snapVars, onceListeners, frames, atStart,
                   unsubscribed, fired, errors, busEvent, editorVars,
                   platformVars >>
outsideEditor == << snapVars, busVars, stackVars, platformVars >>
outsidePlatform == << rendererVars, snapVars, busVars, stackVars, editorVars >>

vars == << rendererVars, snapVars, busVars, stackVars, editorVars,
           platformVars >>

\* The fields a handler reads and writes, as one record
Cur ==
  [drawMode |-> drawMode, startPosition |-> startPosition,
   previewMesh |-> previewMesh, createdBoxes |-> createdBoxes,
   controlsEnabled |-> controlsEnabled, cursor |-> cursor, log |-> << >>]

Becomes(s) ==
  /\ drawMode' = s.drawMode
  /\ startPosition' = s.startPosition
  /\ previewMesh' = s.previewMesh
  /\ createdBoxes' = s.createdBoxes
  /\ controlsEnabled' = s.controlsEnabled
  /\ cursor' = s.cursor
  /\ log' = s.log

Logged(s, msg) == [s EXCEPT !.log = Append(@, msg)]

(***************************************************************************)
(* Methods of RendererLayer, as functions from state to state.             *)
(***************************************************************************)
\* Variant: the preview left in place
clearPreview_Keep(s) == s

clearPreview(s) == [s EXCEPT !.previewMesh = Null]

\* Variant: the preview cleared, the start point kept
resetDrawState_KeepStart(s) == clearPreview(s)

\* Variant: the committed walls dropped together with the start point
resetDrawState_DropBoxes(s) ==
  [s EXCEPT !.previewMesh = Null, !.startPosition = Null,
            !.createdBoxes = << >>]

\* Variant: the start point reset, the preview not cleared
resetDrawState_KeepPreview(s) == [s EXCEPT !.startPosition = Null]

resetDrawState(s) == [clearPreview(s) EXCEPT !.startPosition = Null]

\* Variant: resetDrawState on every call, also when draw mode is turned on
toggleDrawMode_AlwaysReset(s, enabled) ==
  LET dm == IF enabled # Undefined THEN enabled.value ELSE ~s.drawMode
      t == resetDrawState([s EXCEPT !.drawMode = dm, !.controlsEnabled = ~dm])
  IN  IF dm
      THEN Logged([t EXCEPT !.cursor = "crosshair"], "Draw mode enabled")
      ELSE Logged([t EXCEPT !.cursor = "default"], "Draw mode disabled")

\* Variant: leaving draw mode without resetDrawState
toggleDrawMode_NoReset(s, enabled) ==
  LET dm == IF enabled # Undefined THEN enabled.value ELSE ~s.drawMode
      t == [s EXCEPT !.drawMode = dm, !.controlsEnabled = ~dm]
  IN  IF dm
      THEN Logged([t EXCEPT !.cursor = "crosshair"], "Draw mode enabled")
      ELSE Logged([t EXCEPT !.cursor = "default"], "Draw mode disabled")

\* Variant: the two cursor values exchanged
toggleDrawMode_SwappedCursor(s, enabled) ==
  LET dm == IF enabled # Undefined THEN enabled.value ELSE ~s.drawMode
      t == [s EXCEPT !.drawMode = dm, !.controlsEnabled = ~dm]
  IN  IF dm
      THEN Logged([t EXCEPT !.cursor = "default"], "Draw mode enabled")
      ELSE Logged(resetDrawState([t EXCEPT !.cursor = "crosshair"]),
                  "Draw mode disabled")

\* Variant: the controls follow the mode as it was before the change
toggleDrawMode_StaleControls(s, enabled) ==
  LET dm == IF enabled # Undefined THEN enabled.value ELSE ~s.drawMode
      t == [s EXCEPT !.drawMode = dm, !.controlsEnabled = ~s.drawMode]
  IN  IF dm
      THEN Logged([t EXCEPT !.cursor = "crosshair"], "Draw mode enabled")
      ELSE Logged(resetDrawState([t EXCEPT !.cursor = "default"]),
                  "Draw mode disabled")

toggleDrawMode(s, enabled) ==
  LET dm == IF enabled # Undefined THEN enabled.value ELSE ~s.drawMode
      t == [s EXCEPT !.drawMode = dm, !.controlsEnabled = ~dm]
  IN  IF dm
      THEN Logged([t EXCEPT !.cursor = "crosshair"], "Draw mode enabled")
      ELSE Logged(resetDrawState([t EXCEPT !.cursor = "default"]),
                  "Draw mode disabled")

\* Variant: no preview where the overlap check would refuse the segment
updatePreviewBox_Checked(s, start, end) ==
  IF LengthBelow(end.x - start.x, end.z - start.z, MIN_LENGTH)
  THEN s
  ELSE IF checkWallIntersection(start, snappedEnd(start, end), s.createdBoxes)
  THEN [s EXCEPT !.previewMesh = Null]
  ELSE [s EXCEPT !.previewMesh = BoxBetween(start, end)]

updatePreviewBox(s, start, end) ==
  IF LengthBelow(end.x - start.x, end.z - start.z, MIN_LENGTH)
  THEN s
  ELSE [s EXCEPT !.previewMesh = BoxBetween(start, end)]

\* Variant: no return after the intersection warning
createFinalBox_NoReturn(s, start, end) ==
  LET se == snappedEnd(start, end)
      warned == IF checkWallIntersection(start, se, s.createdBoxes)
                THEN Logged(s, "Cannot create wall: intersects with existing wall")
                ELSE s
  IN  IF LengthBelow(end.x - start.x, end.z - start.z, MIN_LENGTH)
      THEN [state |-> s, result |-> Null]
      ELSE [state |-> [warned EXCEPT !.createdBoxes =
                                        Append(@, BoxBetween(start, end))],
            result |-> se]

\* Variant: no minimum-length test
createFinalBox_NoMinLength(s, start, end) ==
  LET se == snappedEnd(start, end)
  IN  IF checkWallIntersection(start, se, s.createdBoxes)
      THEN [state |->
              Logged(s, "Cannot create wall: intersects with existing wall"),
            result |-> Null]
      ELSE [state |-> [s EXCEPT !.createdBoxes =
                                   Append(@, BoxBetween(start, end))],
            result |-> se]

\* The result is the state and the returned snapped end (or Null)
createFinalBox(s, start, end) ==
  LET se == snappedEnd(start, end)
  IN  IF LengthBelow(end.x - start.x, end.z - start.z, MIN_LENGTH)
      THEN [state |-> s, result |-> Null]
      ELSE IF checkWallIntersection(start, se, s.createdBoxes)
      THEN [state |->
              Logged(s, "Cannot create wall: intersects with existing wall"),
            result |-> Null]
      ELSE [state |-> [s EXCEPT !.createdBoxes =
                                   Append(@, BoxBetween(start, end))],
            result |-> se]

handleKeyDown(s, key) ==
  LET t == IF key \in {"d", "D"} THEN toggleDrawMode(s, Undefined) ELSE s
  IN  IF key = "Escape" /\ t.drawMode /\ t.startPosition # Null
      THEN Logged(resetDrawState(t), "Drawing cancelled")
      ELSE t

\* Variant: the raw click point, not the snapped end, becomes the next start
handleClick_RawEnd(s, button, hit) ==
  LET position == getGroundPosition(hit)
  IN  CASE ~s.drawMode -> s
        [] s.drawMode /\ button = 2 -> toggleDrawMode(s, Flag(FALSE))
        [] s.drawMode /\ button \notin {0, 2} -> s
        [] s.drawMode /\ button = 0 /\ position = Null -> s
        [] s.drawMode /\ button = 0 /\ position # Null ->
             IF s.startPosition = Null
             THEN Logged([s EXCEPT !.startPosition = position],
                         "Start position set")
             ELSE LET r == createFinalBox(s, s.startPosition, position)
                      t == clearPreview(r.state)
                  IN  IF r.result # Null
                      THEN Logged([t EXCEPT !.startPosition = position],
                                  "Box created, continuing from endpoint")
                      ELSE Logged(t,
                             "Wall creation failed, keeping current start position")

\* Variant: the button is not looked at, every click draws
handleClick_AnyButton(s, button, hit) ==
  LET position == getGroundPosition(hit)
  IN  CASE ~s.drawMode -> s
        [] s.drawMode /\ position = Null -> s
        [] s.drawMode /\ position # Null ->
             IF s.startPosition = Null
             THEN Logged([s EXCEPT !.startPosition = position],
                         "Start position set")
             ELSE LET r == createFinalBox(s, s.startPosition, position)
                      t == clearPreview(r.state)
                  IN  IF r.result # Null
                      THEN Logged([t EXCEPT !.startPosition = r.result],
                                  "Box created, continuing from endpoint")
                      ELSE Logged(t,
                             "Wall creation failed, keeping current start position")

\* Variant: an accepted commit leaves the start point where it was
handleClick_KeepStart(s, button, hit) ==
  LET position == getGroundPosition(hit)
  IN  CASE ~s.drawMode -> s
        [] s.drawMode /\ button = 2 -> toggleDrawMode(s, Flag(FALSE))
        [] s.drawMode /\ button \notin {0, 2} -> s
        [] s.drawMode /\ button = 0 /\ position = Null -> s
        [] s.drawMode /\ button = 0 /\ position # Null ->
             IF s.startPosition = Null
             THEN Logged([s EXCEPT !.startPosition = position],
                         "Start position set")
             ELSE LET r == createFinalBox(s, s.startPosition, position)
                      t == clearPreview(r.state)
                  IN  IF r.result # Null
                      THEN Logged(t, "Box created, continuing from endpoint")
                      ELSE Logged(t,
                             "Wall creation failed, keeping current start position")

handleClick(s, button, hit) ==
  LET position == getGroundPosition(hit)
  IN  CASE ~s.drawMode -> s
        [] s.drawMode /\ button = 2 -> toggleDrawMode(s, Flag(FALSE))
        [] s.drawMode /\ button \notin {0, 2} -> s
        [] s.drawMode /\ button = 0 /\ position = Null -> s
        [] s.drawMode /\ button = 0 /\ position # Null ->
             IF s.startPosition = Null
             THEN Logged([s EXCEPT !.startPosition = position],
                         "Start position set")
             ELSE LET r == createFinalBox(s, s.startPosition, position)
                      t == clearPreview(r.state)
                  IN  IF r.result # Null
                      THEN Logged([t EXCEPT !.startPosition = r.result],
                                  "Box created, continuing from endpoint")
                      ELSE Logged(t,
                             "Wall creation failed, keeping current start position")

\* Variant: without a start point the preview is drawn from the origin
handleMouseMove_FromOrigin(s, hit) ==
  IF ~s.drawMode
  THEN s
  ELSE LET position == getGroundPosition(hit)
           start == IF s.startPosition = Null THEN Pt(0, 0)
                    ELSE s.startPosition
       IN  IF position # Null
           THEN updatePreviewBox(s, start, position)
           ELSE s

\* Variant: the preview is drawn to the hit point before grid snapping
handleMouseMove_Unsnapped(s, hit) ==
  IF ~s.drawMode \/ s.startPosition = Null
  THEN s
  ELSE IF hit # Null
       THEN updatePreviewBox(s, s.startPosition, hit)
       ELSE s

handleMouseMove(s, hit) ==
  IF ~s.drawMode \/ s.startPosition = Null
  THEN s
  ELSE LET position == getGroundPosition(hit)
       IN  IF position # Null
           THEN updatePreviewBox(s, s.startPosition, position)
           ELSE s

(***************************************************************************)
(* Events delivered on the bus, one handled to completion at a time.       *)
(***************************************************************************)
(***************************************************************************)
(* EventBus: the two maps from event type to callbacks, as functions from  *)
(* bus to bus.  A callback is known by its identity; a registration is     *)
(* the list it was pushed on, its event type and the callback.             *)
(***************************************************************************)
EventTypes == {"A"}
Callbacks == {1, 2}

Registration(kind, eventType, callback) ==
  [kind |-> kind, type |-> eventType, callback |-> callback]

Registrations ==
  [kind : {"on", "once"}, type : EventTypes, callback : Callbacks]

Range(seq) == { seq[i] : i \in 1..Len(seq) }

\* Array.prototype.indexOf, counted from 1; 0 when absent
IndexOf(seq, callback) ==
  IF callback \in Range(seq)
  THEN CHOOSE i \in 1..Len(seq) :
         seq[i] = callback /\ \A j \in 1..(i - 1) : seq[j] # callback
  ELSE 0

\* Array.prototype.splice(index, 1)
Splice(seq, index) == SubSeq(seq, 1, index - 1) \o SubSeq(seq, index + 1, Len(seq))

on(b, eventType, callback) ==
  [b EXCEPT !.listeners[eventType] = Append(@, callback)]

once(b, eventType, callback) ==
  [b EXCEPT !.onceListeners[eventType] = Append(@, callback)]

off(b, eventType, callback) ==
  LET index == IndexOf(b.listeners[eventType], callback)
  IN  IF index > 0
      THEN [b EXCEPT !.listeners[eventType] = Splice(@, index)]
      ELSE b

offOnce(b, eventType, callback) ==
  LET index == IndexOf(b.onceListeners[eventType], callback)
  IN  IF index > 0
      THEN [b EXCEPT !.onceListeners[eventType] = Splice(@, index)]
      ELSE b

\* The function returned by on and by once
unsubscribe(b, registration) ==
  IF registration.kind = "on"
  THEN off(b, registration.type, registration.callback)
  ELSE offOnce(b, registration.type, registration.callback)

\* The registrations of an event type the bus holds
Registered(b, eventType) ==
  { Registration("on", eventType, c) : c \in Range(b.listeners[eventType]) }
    \cup { Registration("once", eventType, c) :
              c \in Range(b.onceListeners[eventType]) }

\* A new EventBus, nothing emitted
BusStart ==
  /\ listeners = [e \in EventTypes |-> << >>]
  /\ onceListeners = [e \in EventTypes |-> << >>]
  /\ frames = << >>
  /\ invoked = {}
  /\ atStart = {}
  /\ unsubscribed = {}
  /\ fired = [e \in EventTypes |-> [c \in Callbacks |-> 0]]
  /\ errors = {}
  /\ busEvent = [op |-> "new"]

\* The layers of the application: the RendererLayer, whose onAttach awaits
\* initialize before it subscribes; a layer whose onAttach subscribes at
\* once; a layer that keeps the empty onAttach of BaseLayer
RENDERER == 1
PHYSICS == 2
PLAIN == 3
LayerObjects == { RENDERER, PHYSICS, PLAIN }

\* The registration BaseLayer.subscribe makes for a layer
Subscription(layer) == Registration("on", "A", layer)

\* BaseLayer.subscribe
subscribe(b, fns, layer) ==
  [bus |-> on(b, "A", layer),
   unsubscribers |-> [fns EXCEPT ![layer] = Append(@, Subscription(layer))]]

\* this.unsubscribers.forEach(unsubscribe => unsubscribe())
RECURSIVE ForEachUnsubscribe(_, _)
ForEachUnsubscribe(b, fns) ==
  IF fns = << >> THEN b
  ELSE ForEachUnsubscribe(unsubscribe(b, Head(fns)), Tail(fns))

\* BaseLayer.onDetach, with RendererLayer.cleanup leaving the bus alone
onDetach(b, fns, layer) ==
  [bus |-> ForEachUnsubscribe(b, fns[layer]),
   unsubscribers |-> [fns EXCEPT ![layer] = << >>]]

\* The loop of LayerStack.clear: onDetach of layers[i] from the last down
RECURSIVE DetachDownFrom(_, _, _, _)
DetachDownFrom(b, fns, stack, i) ==
  IF i = 0 THEN [bus |-> b, unsubscribers |-> fns]
  ELSE LET d == onDetach(b, fns, stack[i])
       IN  DetachDownFrom(d.bus, d.unsubscribers, stack, i - 1)

\* Array.prototype.splice(index, 0, item), index counted from 0
SpliceIn(seq, index, item) ==
  SubSeq(seq, 1, index) \o << item >> \o SubSeq(seq, index + 1, Len(seq))

\* A new LayerStack and layers that were never attached
StackStart ==
  /\ layers = << >>
  /\ layerInsertIndex = 0
  /\ pushedAs = << >>
  /\ pending = {}
  /\ unsubscribers = [l \in LayerObjects |-> << >>]
  /\ detached = [l \in LayerObjects |-> FALSE]
  /\ stackEvent = [op |-> "new"]

\* animationFrameId undefined; requestAnimationFrame returns ids from 1 on
NoFrame == 0
FirstFrame == 1

\* WebPlatform after its constructor
PlatformStart ==
  /\ animationFrameId = NoFrame
  /\ animationCallback = "undefined"
  /\ requested = {}
  /\ nextFrameId = FirstFrame
  /\ listening = TRUE
  /\ stopped = FALSE
  /\ disposed = FALSE
  /\ did = << >>

\* The page after onMount
EditorStart == isDrawMode = FALSE

\* The layer after construction and onAttach
RendererStart ==
  /\ drawMode = FALSE
  /\ startPosition = Null
  /\ previewMesh = Null
  /\ createdBoxes = << >>
  /\ controlsEnabled = TRUE
  /\ cursor = ""
  /\ log = << >>
  /\ lastEvent = [type |-> "NONE"]
  /\ chainedFrom = Null

\* No input under study by SnapSpec
SnapUnused ==
  /\ origin = Null
  /\ rawHit = Null
  /\ gridded = << >>
  /\ angled = << >>
  /\ preview = Null

Init ==
  /\ RendererStart /\ SnapUnused /\ BusStart /\ StackStart /\ EditorStart
  /\ PlatformStart

InputKeyDown(key) ==
  /\ LET next == handleKeyDown(Cur, key) IN Becomes(next)
  /\ lastEvent' = [type |-> "INPUT_KEY_DOWN", key |-> key]
  /\ chainedFrom' = Null
  /\ UNCHANGED outsideRenderer

InputMouseDown(button, hit) ==
  /\ LET next == handleClick(Cur, button, hit)
     IN  /\ Len(next.createdBoxes) <= MaxWalls
         /\ Becomes(next)
         /\ chainedFrom' =
              IF Len(next.createdBoxes) > Len(createdBoxes)
              THEN snappedEnd(startPosition, getGroundPosition(hit))
              ELSE IF button = 2 THEN Null ELSE chainedFrom
  /\ lastEvent' = [type |-> "INPUT_MOUSE_DOWN", button |-> button, hit |-> hit]
  /\ UNCHANGED outsideRenderer

InputMouseMove(hit) ==
  /\ LET next == handleMouseMove(Cur, hit) IN Becomes(next)
  /\ lastEvent' = [type |-> "INPUT_MOUSE_MOVE", hit |-> hit]
  /\ UNCHANGED chainedFrom
  /\ UNCHANGED outsideRenderer

ToggleDrawMode(enabled) ==
  /\ LET next == toggleDrawMode(Cur, enabled) IN Becomes(next)
  /\ lastEvent' = [type |-> "TOGGLE_DRAW_MODE", enabled |-> enabled]
  /\ chainedFrom' = Null
  /\ UNCHANGED outsideRenderer

Next ==
  \/ \E key \in Keys : InputKeyDown(key)
  \/ \E button \in Buttons, hit \in Hits : InputMouseDown(button, hit)
  \/ \E hit \in MoveHits : InputMouseMove(hit)
  \/ \E enabled \in EnabledFlags : ToggleDrawMode(enabled)

Spec == Init /\ [][Next]_vars

(***************************************************************************)
(* The snapping code on its own: the grid snap of getGroundPosition and    *)
(* the angle snap of createFinalBox and updatePreviewBox, applied to one   *)
(* start point and one raw hit, then to their own results.                 *)
(***************************************************************************)
MaxApply == 2

\* Start points: the origin, a grid point, and the off-grid end of a diagonal
SnapOrigins == { Pt(0, 0), Pt(1300, -2000), Pt(-2121, 2121) }

\* Raw coordinates: ties of the grid rounding (50, -50, -2950), values next
\* to a tie, and far values in both signs
SnapCoords == { -7003, -2950, -50, 0, 49, 50, 2951, 7000 }
SnapRawHits == { Pt(x, z) : x \in SnapCoords, z \in SnapCoords }

\* A layer in draw mode with the given start point and an empty registry
Drawing(start) ==
  [drawMode |-> TRUE, startPosition |-> start, previewMesh |-> Null,
   createdBoxes |-> << >>, controlsEnabled |-> FALSE, cursor |-> "crosshair",
   log |-> << >>]

SnapInit ==
  /\ RendererStart
  /\ BusStart
  /\ StackStart
  /\ EditorStart
  /\ PlatformStart
  /\ origin \in SnapOrigins
  /\ rawHit \in SnapRawHits
  /\ gridded = << >>
  /\ angled = << >>
  /\ preview = Null

\* The grid snap, on the raw hit and then on its own result
SnapGrid ==
  /\ Len(gridded) < MaxApply
  /\ gridded' = Append(gridded,
                       getGroundPosition(IF gridded = << >> THEN rawHit
                                         ELSE gridded[Len(gridded)]))
  /\ UNCHANGED << origin, rawHit, angled, preview, outsideSnap >>

\* createFinalBox from the start point to the gridded hit, and then to the
\* end point it returned
SnapCommit ==
  /\ gridded # << >>
  /\ Len(angled) < MaxApply
  /\ angled # << >> => angled[Len(angled)].end # Null
  /\ LET end == IF angled = << >> THEN gridded[1]
                ELSE angled[Len(angled)].end
         r == createFinalBox(Drawing(origin), origin, end)
     IN  angled' = Append(angled, [from |-> end, end |-> r.result,
                                   boxes |-> r.state.createdBoxes])
  /\ UNCHANGED << origin, rawHit, gridded, preview, outsideSnap >>

\* updatePreviewBox from the start point to the gridded hit
SnapPreview ==
  /\ gridded # << >>
  /\ preview = Null
  /\ preview' = updatePreviewBox(Drawing(origin), origin, gridded[1]).previewMesh
  /\ preview' # Null
  /\ UNCHANGED << origin, rawHit, gridded, angled, outsideSnap >>

SnapNext == SnapGrid \/ SnapCommit \/ SnapPreview

SnapSpec == SnapInit /\ [][SnapNext]_vars

(***************************************************************************)
(* The EventBus on its own.  Callers register, unsubscribe and emit; emit  *)
(* runs the callbacks one after the other, and a callback, while it runs,  *)
(* returns, throws, calls an unsubscribe function or emits in its turn.    *)
(***************************************************************************)
MaxDepth == 2

BusNow == [listeners |-> listeners, onceListeners |-> onceListeners]

\* What the body of a callback does
Bodies ==
  { [do |-> "return"], [do |-> "throw"] }
    \cup { [do |-> "unsubscribe", registration |-> r] : r \in Registrations }
    \cup { [do |-> "emit", type |-> e] : e \in EventTypes }

\* A call of emit that has invoked nothing yet; gone are the registrations
\* whose unsubscribe function was called before this call of emit, start
\* the regular listeners it finds, ran the regular listeners it has run
Frame(eventType, gone) ==
  [type |-> eventType, phase |-> "regular", index |-> 1, copy |-> << >>,
   gone |-> gone, start |-> listeners[eventType], ran |-> << >>]

Top == frames[Len(frames)]
Pop(fs) == SubSeq(fs, 1, Len(fs) - 1)

\* The innermost emit has run one more regular listener
Ran(fs, callback) == [fs EXCEPT ![Len(fs)].ran = Append(@, callback)]

\* The iterator of the loop has moved to the next index when the body runs
Advance(fs) == [fs EXCEPT ![Len(fs)].index = @ + 1]

\* An unsubscribe function exists for the registration
Issued(registration) ==
  \/ registration \in Registered(BusNow, registration.type)
  \/ registration \in unsubscribed
  \/ registration \in atStart

\* invoked, atStart and errors describe the outermost emit in progress or
\* the one that returned last, until the next call made on the bus
EmitForgotten == invoked' = {} /\ atStart' = {} /\ errors' = {}

BusOn(eventType, callback) ==
  /\ frames = << >>
  /\ callback \notin Range(listeners[eventType])
  /\ listeners' = on(BusNow, eventType, callback).listeners
  /\ unsubscribed' = unsubscribed \ { Registration("on", eventType, callback) }
  /\ busEvent' = [op |-> "on"]
  /\ EmitForgotten
  /\ UNCHANGED << onceListeners, frames, fired >>
  /\ UNCHANGED outsideBus

BusOnce(eventType, callback) ==
  /\ frames = << >>
  /\ callback \notin Range(onceListeners[eventType])
  /\ onceListeners' = once(BusNow, eventType, callback).onceListeners
  /\ unsubscribed'
       = unsubscribed \ { Registration("once", eventType, callback) }
  /\ fired' = [fired EXCEPT ![eventType][callback] = 0]
  /\ busEvent' = [op |-> "once"]
  /\ EmitForgotten
  /\ UNCHANGED << listeners, frames >>
  /\ UNCHANGED outsideBus

BusUnsubscribe(registration) ==
  /\ frames = << >>
  /\ Issued(registration)
  /\ LET b == unsubscribe(BusNow, registration)
     IN  listeners' = b.listeners /\ onceListeners' = b.onceListeners
  /\ unsubscribed' = unsubscribed \cup {registration}
  /\ busEvent' = [op |-> "unsubscribe"]
  /\ EmitForgotten
  /\ UNCHANGED << frames, fired >>
  /\ UNCHANGED outsideBus

BusEmit(eventType) ==
  /\ frames = << >>
  /\ frames' = << Frame(eventType, unsubscribed) >>
  /\ invoked' = {}
  /\ errors' = {}
  /\ atStart' = Registered(BusNow, eventType)
  /\ busEvent' = [op |-> "emit", type |-> eventType]
  /\ UNCHANGED << listeners, onceListeners, unsubscribed, fired >>
  /\ UNCHANGED outsideBus

\* Variant: no try block, the error of a callback ends the call of emit
Body_Uncaught(registration, body, fs) ==
  /\ busEvent' = [op |-> "invoke", registration |-> registration,
                  body |-> body]
  /\ CASE body.do = "return" ->
            /\ frames' = fs
            /\ UNCHANGED << listeners, onceListeners, unsubscribed, errors >>
       [] body.do = "throw" ->
            /\ frames' = Pop(fs)
            /\ errors' = errors \cup {registration}
            /\ UNCHANGED << listeners, onceListeners, unsubscribed >>
       [] body.do = "unsubscribe" ->
            /\ Issued(body.registration)
            /\ frames' = fs
            /\ LET b == unsubscribe(BusNow, body.registration)
               IN  listeners' = b.listeners /\ onceListeners' = b.onceListeners
            /\ unsubscribed' = unsubscribed \cup {body.registration}
            /\ UNCHANGED errors
       [] body.do = "emit" ->
            /\ Len(fs) < MaxDepth
            /\ frames' = Append(fs, Frame(body.type, unsubscribed))
            /\ UNCHANGED << listeners, onceListeners, unsubscribed, errors >>

\* The body of the callback of a registration, run inside the try block of
\* emit with the frames as the loop left them
Body(registration, body, fs) ==
  /\ busEvent' = [op |-> "invoke", registration |-> registration,
                  body |-> body]
  /\ CASE body.do = "return" ->
            /\ frames' = fs
            /\ UNCHANGED << listeners, onceListeners, unsubscribed, errors >>
       [] body.do = "throw" ->
            /\ frames' = fs
            /\ errors' = errors \cup {registration}
            /\ UNCHANGED << listeners, onceListeners, unsubscribed >>
       [] body.do = "unsubscribe" ->
            /\ Issued(body.registration)
            /\ frames' = fs
            /\ LET b == unsubscribe(BusNow, body.registration)
               IN  listeners' = b.listeners /\ onceListeners' = b.onceListeners
            /\ unsubscribed' = unsubscribed \cup {body.registration}
            /\ UNCHANGED errors
       [] body.do = "emit" ->
            /\ Len(fs) < MaxDepth
            /\ frames' = Append(fs, Frame(body.type, unsubscribed))
            /\ UNCHANGED << listeners, onceListeners, unsubscribed, errors >>

\* The loop over the regular listeners, on the array the map holds
InvokeRegular(body) ==
  /\ frames # << >>
  /\ Top.phase = "regular"
  /\ Top.index <= Len(listeners[Top.type])
  /\ LET registration ==
           Registration("on", Top.type, listeners[Top.type][Top.index])
     IN  /\ invoked' = invoked \cup {registration}
         /\ Body(registration, body,
                 Ran(Advance(frames), listeners[Top.type][Top.index]))
  /\ UNCHANGED << atStart, fired >>
  /\ UNCHANGED outsideBus

\* Variant: the once listeners are run from their list, which is not emptied
CopyOnceListeners_KeepList ==
  /\ frames # << >>
  /\ Top.phase = "regular"
  /\ Top.index > Len(listeners[Top.type])
  /\ IF onceListeners[Top.type] # << >>
     THEN /\ frames' = [frames EXCEPT ![Len(frames)] =
                          [@ EXCEPT !.phase = "once", !.index = 1,
                                    !.copy = onceListeners[Top.type]]]
          /\ busEvent' = [op |-> "copy", type |-> Top.type]
     ELSE /\ frames' = Pop(frames)
          /\ busEvent' = [op |-> "return", type |-> Top.type]
  /\ UNCHANGED << listeners, onceListeners, invoked, atStart, unsubscribed,
                  fired, errors >>
  /\ UNCHANGED outsideBus

\* After the regular listeners: the once listeners are copied and their
\* list emptied, or emit returns when there are none
CopyOnceListeners ==
  /\ frames # << >>
  /\ Top.phase = "regular"
  /\ Top.index > Len(listeners[Top.type])
  /\ IF onceListeners[Top.type] # << >>
     THEN /\ frames' = [frames EXCEPT ![Len(frames)] =
                          [@ EXCEPT !.phase = "once", !.index = 1,
                                    !.copy = onceListeners[Top.type]]]
          /\ onceListeners' = [onceListeners EXCEPT ![Top.type] = << >>]
          /\ busEvent' = [op |-> "copy", type |-> Top.type]
     ELSE /\ frames' = Pop(frames)
          /\ UNCHANGED onceListeners
          /\ busEvent' = [op |-> "return", type |-> Top.type]
  /\ UNCHANGED << listeners, invoked, atStart, unsubscribed, fired, errors >>
  /\ UNCHANGED outsideBus

\* The loop over the copy of the once listeners
InvokeOnce(body) ==
  /\ frames # << >>
  /\ Top.phase = "once"
  /\ Top.index <= Len(Top.copy)
  /\ fired[Top.type][Top.copy[Top.index]] < 2
  /\ LET registration == Registration("once", Top.type, Top.copy[Top.index])
     IN  /\ invoked' = invoked \cup {registration}
         /\ fired' = [fired EXCEPT ![Top.type][Top.copy[Top.index]] = @ + 1]
         /\ Body(registration, body, Advance(frames))
  /\ UNCHANGED atStart
  /\ UNCHANGED outsideBus

EmitReturn ==
  /\ frames # << >>
  /\ Top.phase = "once"
  /\ Top.index > Len(Top.copy)
  /\ frames' = Pop(frames)
  /\ busEvent' = [op |-> "return", type |-> Top.type]
  /\ UNCHANGED << listeners, onceListeners, invoked, atStart, unsubscribed,
                  fired, errors >>
  /\ UNCHANGED outsideBus

BusNext ==
  \/ \E e \in EventTypes, c \in Callbacks : BusOn(e, c)
  \/ \E e \in EventTypes, c \in Callbacks : BusOnce(e, c)
  \/ \E r \in Registrations : BusUnsubscribe(r)
  \/ \E e \in EventTypes : BusEmit(e)
  \/ \E body \in Bodies : InvokeRegular(body)
  \/ CopyOnceListeners
  \/ \E body \in Bodies : InvokeOnce(body)
  \/ EmitReturn

BusSpec == Init /\ [][BusNext]_vars

(***************************************************************************)
(* The LayerStack with its layers on the EventBus.  Callers push and pop   *)
(* layers and overlays, clear the stack and emit; the onAttach of the      *)
(* RendererLayer is resumed, some time after the push, when initialize is  *)
(* done.  The listeners of the layers return normally.                     *)
(***************************************************************************)
MaxLayers == 3

\* What pushedAs becomes when the element at index (from 1) goes: the
\* elements pushed after it move up one rank
Popped(index) ==
  LET rest == Splice(pushedAs, index)
  IN  [i \in 1..Len(rest) |->
         IF rest[i].stamp > pushedAs[index].stamp
         THEN [rest[i] EXCEPT !.stamp = @ - 1]
         ELSE rest[i]]

\* No listener has been run since the last emit
NothingInvoked == invoked' = {}

\* onAttach of a layer, up to its return or its first await
Attach(layer) ==
  /\ detached' = [detached EXCEPT ![layer] = FALSE]
  /\ CASE layer = RENDERER ->
            /\ pending' = pending \cup {layer}
            /\ UNCHANGED << listeners, unsubscribers >>
       [] layer = PHYSICS ->
            /\ LET s == subscribe(BusNow, unsubscribers, layer)
               IN  /\ listeners' = s.bus.listeners
                   /\ unsubscribers' = s.unsubscribers
            /\ UNCHANGED pending
       [] OTHER ->
            UNCHANGED << listeners, unsubscribers, pending >>

pushLayer(layer) ==
  /\ Len(layers) < MaxLayers
  /\ layer \notin pending
  /\ layers' = SpliceIn(layers, layerInsertIndex, layer)
  /\ layerInsertIndex' = layerInsertIndex + 1
  /\ pushedAs' = SpliceIn(pushedAs, layerInsertIndex,
                          [kind |-> "layer", stamp |-> Len(layers) + 1])
  /\ Attach(layer)
  /\ stackEvent' = [op |-> "pushLayer", layer |-> layer]
  /\ NothingInvoked
  /\ UNCHANGED outsideStack

pushOverlay(overlay) ==
  /\ Len(layers) < MaxLayers
  /\ overlay \notin pending
  /\ layers' = Append(layers, overlay)
  /\ pushedAs' = Append(pushedAs, [kind |-> "overlay", stamp |-> Len(layers) + 1])
  /\ Attach(overlay)
  /\ stackEvent' = [op |-> "pushOverlay", layer |-> overlay]
  /\ NothingInvoked
  /\ UNCHANGED layerInsertIndex
  /\ UNCHANGED outsideStack

\* RendererLayer.onAttach after its await: setupEventListeners
AttachResume(layer) ==
  /\ layer \in pending
  /\ pending' = pending \ {layer}
  /\ LET s == subscribe(BusNow, unsubscribers, layer)
     IN  /\ listeners' = s.bus.listeners
         /\ unsubscribers' = s.unsubscribers
  /\ stackEvent' = [op |-> "onAttach", layer |-> layer]
  /\ NothingInvoked
  /\ UNCHANGED << layers, layerInsertIndex, pushedAs, detached >>
  /\ UNCHANGED outsideStack

\* The removal shared by popLayer and popOverlay, index counted from 1
Remove(layer, index) ==
  /\ layers' = Splice(layers, index)
  /\ pushedAs' = Popped(index)
  /\ LET d == onDetach(BusNow, unsubscribers, layer)
     IN  /\ listeners' = d.bus.listeners
         /\ unsubscribers' = d.unsubscribers
  /\ detached' = [detached EXCEPT ![layer] = TRUE]

\* Variant: popLayer removes the layer wherever it is found
popLayer_AnyIndex(layer) ==
  /\ LET index == IndexOf(layers, layer)
     IN  IF index # 0
         THEN /\ Remove(layer, index)
              /\ layerInsertIndex' = layerInsertIndex - 1
              /\ stackEvent' = [op |-> "popLayer", layer |-> layer,
                                onDetach |-> TRUE]
         ELSE /\ UNCHANGED << layers, layerInsertIndex, pushedAs,
                              listeners, unsubscribers, detached >>
              /\ stackEvent' = [op |-> "popLayer", layer |-> layer,
                                onDetach |-> FALSE]
  /\ NothingInvoked
  /\ UNCHANGED pending
  /\ UNCHANGED outsideStack

popLayer(layer) ==
  /\ LET index == IndexOf(layers, layer)
     IN  IF index # 0 /\ index - 1 < layerInsertIndex
         THEN /\ Remove(layer, index)
              /\ layerInsertIndex' = layerInsertIndex - 1
              /\ stackEvent' = [op |-> "popLayer", layer |-> layer,
                                onDetach |-> TRUE]
         ELSE /\ UNCHANGED << layers, layerInsertIndex, pushedAs,
                              listeners, unsubscribers, detached >>
              /\ stackEvent' = [op |-> "popLayer", layer |-> layer,
                                onDetach |-> FALSE]
  /\ NothingInvoked
  /\ UNCHANGED pending
  /\ UNCHANGED outsideStack

popOverlay(overlay) ==
  /\ LET index == IndexOf(layers, overlay)
     IN  IF index # 0 /\ index - 1 >= layerInsertIndex
         THEN /\ Remove(overlay, index)
              /\ UNCHANGED layerInsertIndex
              /\ stackEvent' = [op |-> "popOverlay", layer |-> overlay,
                                onDetach |-> TRUE]
         ELSE /\ UNCHANGED << layers, layerInsertIndex, pushedAs,
                              listeners, unsubscribers, detached >>
              /\ stackEvent' = [op |-> "popOverlay", layer |-> overlay,
                                onDetach |-> FALSE]
  /\ NothingInvoked
  /\ UNCHANGED pending
  /\ UNCHANGED outsideStack

clear ==
  /\ LET d == DetachDownFrom(BusNow, unsubscribers, layers, Len(layers))
     IN  /\ listeners' = d.bus.listeners
         /\ unsubscribers' = d.unsubscribers
  /\ detached' = [l \in LayerObjects |->
                    detached[l] \/ l \in Range(layers)]
  /\ layers' = << >>
  /\ layerInsertIndex' = 0
  /\ pushedAs' = << >>
  /\ stackEvent' = [op |-> "clear"]
  /\ NothingInvoked
  /\ UNCHANGED pending
  /\ UNCHANGED outsideStack

\* EventBus.emit with listeners that return: each one in the array is run
StackEmit ==
  /\ invoked' = Registered(BusNow, "A")
  /\ stackEvent' = [op |-> "emit"]
  /\ UNCHANGED << layers, layerInsertIndex, pushedAs, pending,
                  unsubscribers, detached, listeners >>
  /\ UNCHANGED outsideStack

StackNext ==
  \/ \E layer \in LayerObjects : pushLayer(layer)
  \/ \E layer \in LayerObjects : pushOverlay(layer)
  \/ \E layer \in LayerObjects : AttachResume(layer)
  \/ \E layer \in LayerObjects : popLayer(layer)
  \/ \E layer \in LayerObjects : popOverlay(layer)
  \/ clear
  \/ StackEmit

StackSpec == Init /\ [][StackNext]_vars

(***************************************************************************)
(* The overlap check on walls in contact.  The same layer and handlers as  *)
(* in Spec, with clicks at points chosen so that footprints touch: a wall  *)
(* along the x axis, a parallel one whose centre line is one thickness     *)
(* away, and a wall that ends on the side face of the first.               *)
(***************************************************************************)
ContactHits ==
  { Pt(0, 0), Pt(10000, 0),
    Pt(2000, BOX_THICKNESS), Pt(8000, BOX_THICKNESS),
    Pt(5000, 10000), Pt(5000, BOX_THICKNESS \div 2) }

OverlapNext ==
  \/ \E hit \in ContactHits : InputMouseDown(0, hit)
  \/ \E key \in Keys : InputKeyDown(key)

OverlapSpec == Init /\ [][OverlapNext]_vars

(***************************************************************************)
(* The editor page with the engine.  The draw-mode button flips the flag   *)
(* of the page and emits TOGGLE_DRAW_MODE with it; keys and clicks reach   *)
(* the layer through the platform as in Spec.                              *)
(***************************************************************************)
\* toggleDrawMode of +page.svelte, the layer's listener run by the emit
ButtonPress ==
  /\ isDrawMode' = ~isDrawMode
  /\ LET next == toggleDrawMode(Cur, Flag(~isDrawMode)) IN Becomes(next)
  /\ lastEvent' = [type |-> "TOGGLE_DRAW_MODE", enabled |-> Flag(~isDrawMode)]
  /\ chainedFrom' = Null
  /\ UNCHANGED outsideEditor

EditorNext ==
  \/ ButtonPress
  \/ \E key \in Keys : InputKeyDown(key)
  \/ \E button \in Buttons, hit \in Hits : InputMouseDown(button, hit)

EditorSpec == Init /\ [][EditorNext]_vars

(***************************************************************************)
(* WebPlatform.  A step is one call from outside (startAnimationLoop,      *)
(* stopAnimationLoop, dispose), one animation frame of the browser, or one *)
(* DOM event.  The platform is a record while a step runs; did lists, in   *)
(* order, the calls that returned, the events emitted and the invocations  *)
(* of the animation callback.  The payloads (deltaTime, timestamp, client  *)
(* coordinates) are left out, and lastFrameTime with them.                 *)
(***************************************************************************)
MaxFrames == 4

\* What a listener of ANIMATION_FRAME or the animation callback does
LoopBodies == {"plain", "stops", "disposes"}

PlatformCur ==
  [animationFrameId |-> animationFrameId,
   animationCallback |-> animationCallback,
   requested |-> requested, nextFrameId |-> nextFrameId,
   listening |-> listening, stopped |-> stopped, disposed |-> disposed,
   did |-> << >>]

PlatformBecomes(p) ==
  /\ animationFrameId' = p.animationFrameId
  /\ animationCallback' = p.animationCallback
  /\ requested' = p.requested
  /\ nextFrameId' = p.nextFrameId
  /\ listening' = p.listening
  /\ stopped' = p.stopped
  /\ disposed' = p.disposed
  /\ did' = p.did

Did(p, what) == [p EXCEPT !.did = Append(@, what)]

\* cancelAnimationFrame(id)
cancelAnimationFrame(p, id) == [p EXCEPT !.requested = @ \ {id}]

\* WebPlatform.stopAnimationLoop
stopAnimationLoop(p) ==
  LET q == IF p.animationFrameId # NoFrame
           THEN [cancelAnimationFrame(p, p.animationFrameId)
                   EXCEPT !.animationFrameId = NoFrame]
           ELSE p
  IN  Did([q EXCEPT !.stopped = TRUE], "stopAnimationLoop")

\* WebPlatform.dispose
dispose(p) ==
  Did([stopAnimationLoop(p) EXCEPT !.listening = FALSE, !.disposed = TRUE],
      "dispose")

\* A listener or the callback running
RunBody(body, p) ==
  CASE body = "stops" -> stopAnimationLoop(p)
    [] body = "disposes" -> dispose(p)
    [] OTHER -> p

\* WebPlatform.animate, the listeners of ANIMATION_FRAME doing `listener`
animate(p, listener) ==
  LET asked == [p EXCEPT !.animationFrameId = p.nextFrameId,
                         !.requested = @ \cup {p.nextFrameId},
                         !.nextFrameId = @ + 1]
      emitted == RunBody(listener, Did(asked, "ANIMATION_FRAME"))
  IN  IF emitted.animationCallback # "undefined"
      THEN RunBody(emitted.animationCallback, Did(emitted, "callback"))
      ELSE emitted

\* WebPlatform.startAnimationLoop
startAnimationLoop(p, callback, listener) ==
  animate(Did([p EXCEPT !.animationCallback = callback,
                        !.stopped = FALSE, !.disposed = FALSE],
              "startAnimationLoop"), listener)

StartAnimationLoop(callback, listener) ==
  /\ nextFrameId <= MaxFrames
  /\ PlatformBecomes(startAnimationLoop(PlatformCur, callback, listener))
  /\ UNCHANGED outsidePlatform

StopAnimationLoop ==
  /\ PlatformBecomes(stopAnimationLoop(PlatformCur))
  /\ UNCHANGED outsidePlatform

Dispose ==
  /\ PlatformBecomes(dispose(PlatformCur))
  /\ UNCHANGED outsidePlatform

\* The browser runs the oldest requested frame
Oldest(ids) == CHOOSE id \in ids : \A other \in ids : id <= other

FrameFires(listener) ==
  /\ requested # {}
  /\ nextFrameId <= MaxFrames
  /\ PlatformBecomes(animate(cancelAnimationFrame(PlatformCur,
                                                  Oldest(requested)),
                             listener))
  /\ UNCHANGED outsidePlatform

\* The DOM events the platform listens to, and the event each handler emits
DomEvents == {"keydown", "mousedown", "mousemove", "contextmenu", "resize"}

Emitted(dom) ==
  CASE dom = "keydown" -> << "INPUT_KEY_DOWN" >>
    [] dom = "mousedown" -> << "INPUT_MOUSE_DOWN" >>
    [] dom = "mousemove" -> << "INPUT_MOUSE_MOVE" >>
    [] dom = "resize" -> << "VIEWPORT_RESIZE" >>
    [] OTHER -> << >>

DomEvent(dom) ==
  /\ PlatformBecomes([PlatformCur EXCEPT
                        !.did = IF listening THEN Emitted(dom) ELSE << >>])
  /\ UNCHANGED outsidePlatform

PlatformNext ==
  \/ \E callback \in LoopBodies, listener \in LoopBodies :
       StartAnimationLoop(callback, listener)
  \/ StopAnimationLoop
  \/ Dispose
  \/ \E listener \in LoopBodies : FrameFires(listener)
  \/ \E dom \in DomEvents : DomEvent(dom)

PlatformSpec == Init /\ [][PlatformNext]_vars

(***************************************************************************)
(* Vocabulary of the properties.                                           *)
(***************************************************************************)
Idle == ~drawMode
Armed == drawMode /\ startPosition = Null
Pending == drawMode /\ startPosition # Null

\* The event just handled
PrimaryClick == lastEvent'.type = "INPUT_MOUSE_DOWN" /\ lastEvent'.button = 0
SecondaryClick == lastEvent'.type = "INPUT_MOUSE_DOWN" /\ lastEvent'.button = 2
PointerMove == lastEvent'.type = "INPUT_MOUSE_MOVE"
KeyPress(key) == lastEvent'.type = "INPUT_KEY_DOWN" /\ lastEvent'.key = key
ToggleEvent(enabled) ==
  lastEvent'.type = "TOGGLE_DRAW_MODE" /\ lastEvent'.enabled = enabled

\* A primary click in Pending whose pick succeeded
PendingClick == PrimaryClick /\ Pending /\ lastEvent'.hit # Null

\* The grid-snapped point of the click just handled and the candidate end
ClickPoint == getGroundPosition(lastEvent'.hit)
CandidateEnd == snappedEnd(startPosition, ClickPoint)
ClickTooShort ==
  LengthBelow(ClickPoint.x - startPosition.x, ClickPoint.z - startPosition.z,
              MIN_LENGTH)

\* Intersection of two convex quadrilaterals, by edges and vertices:
\* independent of the projection test of rectanglesIntersect.
Cross(o, a, b) == (a.x - o.x) * (b.z - o.z) - (a.z - o.z) * (b.x - o.x)

Between(a, b, p) ==
  /\ (IF a.x < b.x THEN a.x ELSE b.x) <= p.x
  /\ p.x <= (IF a.x < b.x THEN b.x ELSE a.x)
  /\ (IF a.z < b.z THEN a.z ELSE b.z) <= p.z
  /\ p.z <= (IF a.z < b.z THEN b.z ELSE a.z)

Sign(n) == IF n > 0 THEN 1 ELSE IF n < 0 THEN -1 ELSE 0

SegmentsMeet(a, b, c, d) ==
  LET o1 == Sign(Cross(a, b, c))
      o2 == Sign(Cross(a, b, d))
      o3 == Sign(Cross(c, d, a))
      o4 == Sign(Cross(c, d, b))
  IN  \/ o1 # o2 /\ o3 # o4
      \/ o1 = 0 /\ Between(a, b, c)
      \/ o2 = 0 /\ Between(a, b, d)
      \/ o3 = 0 /\ Between(c, d, a)
      \/ o4 = 0 /\ Between(c, d, b)

Corner(rect, i) == rect[((i - 1) % 4) + 1]

Inside(rect, p) ==
  \/ \A i \in 1..4 : Cross(Corner(rect, i), Corner(rect, i + 1), p) >= 0
  \/ \A i \in 1..4 : Cross(Corner(rect, i), Corner(rect, i + 1), p) <= 0

FootprintsMeet(rect1, rect2) ==
  \/ \E i \in 1..4 : Inside(rect1, rect2[i])
  \/ \E i \in 1..4 : Inside(rect2, rect1[i])
  \/ \E i, j \in 1..4 :
        SegmentsMeet(Corner(rect1, i), Corner(rect1, i + 1),
                     Corner(rect2, j), Corner(rect2, j + 1))

Footprint(box) == getWallCorners(getBoxStartPoint(box), getBoxEndPoint(box))

BoxesShareEndpoint(b1, b2) ==
  SharesEndpoint(getBoxStartPoint(b1), getBoxEndPoint(b1),
                 getBoxStartPoint(b2), getBoxEndPoint(b2))

\* Some committed wall shares no endpoint with the segment and meets its
\* footprint
Overlapped(start, end, boxes) ==
  \E i \in 1..Len(boxes) :
    /\ ~SharesEndpoint(start, end, getBoxStartPoint(boxes[i]),
                       getBoxEndPoint(boxes[i]))
    /\ FootprintsMeet(getWallCorners(start, end), Footprint(boxes[i]))

(***************************************************************************)
(* C1.  In every reachable state, every two distinct committed walls       *)
(* either share an endpoint within the tolerance or have footprint         *)
(* rectangles that do not intersect.                                       *)
(***************************************************************************)
C1_NoOverlap ==
  \A i, j \in 1..Len(createdBoxes) :
    i < j =>
      \/ BoxesShareEndpoint(createdBoxes[i], createdBoxes[j])
      \/ ~FootprintsMeet(Footprint(createdBoxes[i]),
                         Footprint(createdBoxes[j]))

\* Two committed walls that share no endpoint
C1_Witness ==
  \E i, j \in 1..Len(createdBoxes) :
    i < j /\ ~BoxesShareEndpoint(createdBoxes[i], createdBoxes[j])

(***************************************************************************)
(* C2.  A primary click in Pending whose candidate is long enough and is   *)
(* accepted by the overlap check appends exactly one segment, from the     *)
(* start point to the snapped end, clears the preview and makes the        *)
(* snapped end the new start point, the session staying Pending.           *)
(***************************************************************************)
C2_AcceptedClick ==
  [][ (/\ PendingClick
       /\ ~ClickTooShort
       /\ ~Overlapped(startPosition, CandidateEnd, createdBoxes))
      => (/\ Len(createdBoxes') = Len(createdBoxes) + 1
          /\ SubSeq(createdBoxes', 1, Len(createdBoxes)) = createdBoxes
          /\ pointsAreEqual(getBoxStartPoint(createdBoxes'[Len(createdBoxes')]),
                            startPosition)
          /\ pointsAreEqual(getBoxEndPoint(createdBoxes'[Len(createdBoxes')]),
                            CandidateEnd)
          /\ previewMesh' = Null
          /\ startPosition' = CandidateEnd
          /\ drawMode' ) ]_vars

\* Two chained commits: the last click was accepted and its wall starts at
\* the end of the wall before it
C2_Witness ==
  /\ lastEvent.type = "INPUT_MOUSE_DOWN"
  /\ log = << "Box created, continuing from endpoint" >>
  /\ Len(createdBoxes) >= 2
  /\ pointsAreEqual(getBoxStartPoint(createdBoxes[Len(createdBoxes)]),
                    getBoxEndPoint(createdBoxes[Len(createdBoxes) - 1]))
  /\ pointsAreEqual(startPosition,
                    getBoxEndPoint(createdBoxes[Len(createdBoxes)]))

(***************************************************************************)
(* C3.  A primary click in Pending whose candidate intersects a committed  *)
(* wall with which it shares no endpoint leaves the registry unchanged,    *)
(* clears the preview and keeps the session Pending with the same start.   *)
(***************************************************************************)
C3_RejectedClick ==
  [][ (/\ PendingClick
       /\ ~ClickTooShort
       /\ Overlapped(startPosition, CandidateEnd, createdBoxes))
      => (/\ createdBoxes' = createdBoxes
          /\ previewMesh' = Null
          /\ startPosition' = startPosition
          /\ drawMode' ) ]_vars

\* A click was rejected by the overlap check
C3_Witness ==
  /\ lastEvent.type = "INPUT_MOUSE_DOWN"
  /\ log = << "Cannot create wall: intersects with existing wall",
              "Wall creation failed, keeping current start position" >>
  /\ Pending
  /\ previewMesh = Null

(***************************************************************************)
(* C4.  A primary click in Pending closer than MIN_LENGTH to the start     *)
(* point commits no segment and leaves the start point unchanged.          *)
(***************************************************************************)
C4_ShortClick ==
  [][ (PendingClick /\ ClickTooShort)
      => (createdBoxes' = createdBoxes /\ startPosition' = startPosition)
    ]_vars

\* The click just handled was at the start point itself
C4_Witness ==
  /\ lastEvent.type = "INPUT_MOUSE_DOWN"
  /\ lastEvent.button = 0
  /\ lastEvent.hit # Null
  /\ Pending
  /\ getGroundPosition(lastEvent.hit) = startPosition
  /\ log = << "Wall creation failed, keeping current start position" >>

(***************************************************************************)
(* C5 as stated.  A primary click in Pending whose length is below         *)
(* MIN_LENGTH changes nothing: mode, start point, registry and the live    *)
(* preview shown are as before the click.                                  *)
(***************************************************************************)
C5_ShortClickChangesNothing ==
  [][ (PendingClick /\ ClickTooShort)
      => UNCHANGED << drawMode, startPosition, createdBoxes, previewMesh >>
    ]_vars

(***************************************************************************)
(* C5 amended.  A primary click in Pending whose length is below           *)
(* MIN_LENGTH leaves mode, start point and registry unchanged and clears   *)
(* the live preview.                                                       *)
(***************************************************************************)
C5_ShortClickClearsPreview ==
  [][ (PendingClick /\ ClickTooShort)
      => (/\ UNCHANGED << drawMode, startPosition, createdBoxes,
                          controlsEnabled, cursor >>
          /\ previewMesh' = Null) ]_vars

\* A click below MIN_LENGTH was handled and no preview is shown
C5_Witness ==
  /\ lastEvent.type = "INPUT_MOUSE_DOWN"
  /\ lastEvent.button = 0
  /\ lastEvent.hit # Null
  /\ Pending
  /\ LengthBelow(getGroundPosition(lastEvent.hit).x - startPosition.x,
                 getGroundPosition(lastEvent.hit).z - startPosition.z,
                 MIN_LENGTH)
  /\ previewMesh = Null
  /\ createdBoxes # << >>

(***************************************************************************)
(* C6 as stated.  A secondary-button click while Armed or Pending leaves   *)
(* the session Armed: draw mode stays on, start point and preview cleared. *)
(***************************************************************************)
C6_SecondaryClickArms ==
  [][ (SecondaryClick /\ drawMode)
      => (drawMode' /\ startPosition' = Null /\ previewMesh' = Null) ]_vars

(***************************************************************************)
(* C6 amended.  A secondary-button click while Armed or Pending switches   *)
(* draw mode off: the session becomes Idle with the start point and the    *)
(* preview cleared, and the registry is unchanged.                         *)
(***************************************************************************)
C6_SecondaryClickExits ==
  [][ (SecondaryClick /\ drawMode)
      => (/\ ~drawMode'
          /\ startPosition' = Null
          /\ previewMesh' = Null
          /\ createdBoxes' = createdBoxes) ]_vars

\* A secondary click has just switched draw mode off
C6_Witness ==
  /\ lastEvent.type = "INPUT_MOUSE_DOWN"
  /\ lastEvent.button = 2
  /\ log = << "Draw mode disabled" >>
  /\ Idle

(***************************************************************************)
(* C7.  Escape while Pending clears the preview and the start point and    *)
(* returns the session to Armed; draw mode stays on and the registry is    *)
(* unchanged.                                                              *)
(***************************************************************************)
C7_EscapeCancels ==
  [][ (KeyPress("Escape") /\ Pending)
      => (/\ previewMesh' = Null
          /\ startPosition' = Null
          /\ drawMode'
          /\ createdBoxes' = createdBoxes) ]_vars

\* Escape has just cancelled a drawing
C7_Witness ==
  /\ lastEvent.type = "INPUT_KEY_DOWN"
  /\ lastEvent.key = "Escape"
  /\ log = << "Drawing cancelled" >>
  /\ Armed

(***************************************************************************)
(* C8.  A toggle without a flag (TOGGLE_DRAW_MODE with enabled absent, or  *)
(* the d or D key) flips the mode: Idle becomes Armed; Armed or Pending    *)
(* becomes Idle, with the start point and the preview cleared.             *)
(***************************************************************************)
C8_ToggleFlips ==
  [][ (ToggleEvent(Undefined) \/ KeyPress("d") \/ KeyPress("D"))
      => (/\ Idle => drawMode' /\ startPosition' = Null
          /\ drawMode =>
                ~drawMode' /\ startPosition' = Null /\ previewMesh' = Null)
    ]_vars

\* The d key has just switched draw mode off
C8_Witness ==
  /\ lastEvent.type = "INPUT_KEY_DOWN"
  /\ lastEvent.key \in {"d", "D"}
  /\ log = << "Draw mode disabled" >>
  /\ Idle
  /\ startPosition = Null
  /\ previewMesh = Null

(***************************************************************************)
(* C9.  A primary click in Armed whose pick succeeds stores the point      *)
(* snapped to the grid as the start point and makes the session Pending,   *)
(* the registry unchanged and no preview shown; if the pick fails the      *)
(* session stays Armed.                                                    *)
(***************************************************************************)
OnGrid(p) == p.x % GRID_STEP = 0 /\ p.z % GRID_STEP = 0

NearestTo(p, raw) ==
  /\ 2 * Abs(p.x - raw.x) <= GRID_STEP
  /\ 2 * Abs(p.z - raw.z) <= GRID_STEP

C9_FirstClick ==
  [][ (PrimaryClick /\ Armed)
      => IF lastEvent'.hit # Null
         THEN /\ startPosition' # Null
              /\ OnGrid(startPosition')
              /\ NearestTo(startPosition', lastEvent'.hit)
              /\ drawMode'
              /\ createdBoxes' = createdBoxes
              /\ previewMesh' = Null
         ELSE drawMode' /\ startPosition' = Null ]_vars

\* A first click off the grid has just set the start point
C9_Witness ==
  /\ lastEvent.type = "INPUT_MOUSE_DOWN"
  /\ log = << "Start position set" >>
  /\ Pending
  /\ lastEvent.hit # startPosition

(***************************************************************************)
(* C10.  When the ground pick returns no intersection, a primary click or  *)
(* a pointer move is a no-op in every state: mode, start point, preview    *)
(* and registry are unchanged.                                             *)
(***************************************************************************)
C10_MissIsNoOp ==
  [][ ((PrimaryClick \/ PointerMove) /\ lastEvent'.hit = Null)
      => (/\ UNCHANGED << drawMode, startPosition, previewMesh, createdBoxes,
                          controlsEnabled, cursor >>
          /\ log' = << >>) ]_vars

\* A pick has just missed the plane while a preview was shown
C10_Witness ==
  /\ lastEvent.type \in {"INPUT_MOUSE_DOWN", "INPUT_MOUSE_MOVE"}
  /\ lastEvent.hit = Null
  /\ Pending
  /\ previewMesh # Null

(***************************************************************************)
(* C11.  The registry is append-only: a step changes it only when it is an *)
(* accepted primary click in Pending, which appends exactly one segment at *)
(* the end; every other event leaves contents and order unchanged.         *)
(***************************************************************************)
C11_AppendOnly ==
  [][ \/ createdBoxes' = createdBoxes
      \/ /\ PendingClick
         /\ ~ClickTooShort
         /\ ~Overlapped(startPosition, CandidateEnd, createdBoxes)
         /\ Len(createdBoxes') = Len(createdBoxes) + 1
         /\ SubSeq(createdBoxes', 1, Len(createdBoxes)) = createdBoxes
    ]_vars

\* Two walls are committed and draw mode has been left since
C11_Witness ==
  /\ Len(createdBoxes) = 2
  /\ Idle
  /\ log = << "Draw mode disabled" >>

(***************************************************************************)
(* C12.  Every committed wall is at least MIN_LENGTH long, both as the     *)
(* stored width and as the distance between its two end points.            *)
(***************************************************************************)
C12_MinLength ==
  \A i \in 1..Len(createdBoxes) :
    /\ createdBoxes[i].width >= MIN_LENGTH
    /\ ~LengthBelow(
          getBoxEndPoint(createdBoxes[i]).x - getBoxStartPoint(createdBoxes[i]).x,
          getBoxEndPoint(createdBoxes[i]).z - getBoxStartPoint(createdBoxes[i]).z,
          MIN_LENGTH)

\* A wall is committed and a click at the start point has just been refused
C12_Witness ==
  /\ createdBoxes # << >>
  /\ Pending
  /\ lastEvent.type = "INPUT_MOUSE_DOWN"
  /\ log = << "Wall creation failed, keeping current start position" >>

(***************************************************************************)
(* C13.  A pointer move while the session is Idle or Armed is a no-op: no  *)
(* preview is created and mode, start point and registry are unchanged.    *)
(***************************************************************************)
C13_MoveOutsidePending ==
  [][ (PointerMove /\ (Idle \/ Armed))
      => (/\ previewMesh' = Null
          /\ UNCHANGED << drawMode, startPosition, previewMesh, createdBoxes,
                          controlsEnabled, cursor >>) ]_vars

\* A pointer move with a successful pick has just been handled in Armed
C13_Witness ==
  /\ lastEvent.type = "INPUT_MOUSE_MOVE"
  /\ lastEvent.hit # Null
  /\ Armed
  /\ previewMesh = Null

\* A pointer move in Pending whose pick succeeded, its grid-snapped point
PendingMove == PointerMove /\ Pending /\ lastEvent'.hit # Null
MovePoint == getGroundPosition(lastEvent'.hit)
MoveTooShort ==
  LengthBelow(MovePoint.x - startPosition.x, MovePoint.z - startPosition.z,
              MIN_LENGTH)

(***************************************************************************)
(* C14.  A pointer move while Pending changes only the live preview:       *)
(* registry, start point and mode are unchanged; the preview is the        *)
(* segment from the start point to the snapped end whether or not the      *)
(* overlap check would accept it.                                          *)
(***************************************************************************)
C14_MoveOnlyPreviews ==
  [][ (PointerMove /\ Pending)
      => (/\ UNCHANGED << drawMode, startPosition, createdBoxes,
                          controlsEnabled, cursor >>
          /\ (lastEvent'.hit # Null /\ ~MoveTooShort)
               => (/\ previewMesh' # Null
                   /\ pointsAreEqual(getBoxStartPoint(previewMesh'),
                                     startPosition)
                   /\ pointsAreEqual(getBoxEndPoint(previewMesh'),
                                     snappedEnd(startPosition, MovePoint))))
    ]_vars

\* A preview is shown for a segment that the overlap check would refuse
C14_Witness ==
  /\ lastEvent.type = "INPUT_MOUSE_MOVE"
  /\ Pending
  /\ previewMesh # Null
  /\ Overlapped(getBoxStartPoint(previewMesh), getBoxEndPoint(previewMesh),
                createdBoxes)

(***************************************************************************)
(* C15.  After a pointer move in Pending whose grid-snapped point is       *)
(* closer than MIN_LENGTH to the start point, no live preview is displayed *)
(* and nothing is committed.                                               *)
(***************************************************************************)
C15_ShortMoveShowsNothing ==
  [][ (PendingMove /\ MoveTooShort)
      => (previewMesh' = Null /\ createdBoxes' = createdBoxes) ]_vars

(***************************************************************************)
(* C16.  Every event that changes or sets draw mode (a toggle request with *)
(* or without a flag, the draw-mode key, a secondary click in draw mode)   *)
(* emits a cursor-change signal that is 'crosshair' when draw mode is on   *)
(* afterwards and 'default' when it is off; so once a signal has been      *)
(* emitted the canvas cursor is 'crosshair' exactly when draw mode is on.  *)
(***************************************************************************)
ModeEvent ==
  \/ lastEvent'.type = "TOGGLE_DRAW_MODE"
  \/ KeyPress("d")
  \/ KeyPress("D")
  \/ SecondaryClick /\ drawMode

C16_CursorFollowsMode ==
  /\ [][ ModeEvent
         => /\ cursor' = (IF drawMode' THEN "crosshair" ELSE "default")
            /\ log' = (IF drawMode' THEN << "Draw mode enabled" >>
                                    ELSE << "Draw mode disabled" >>) ]_vars
  /\ [](cursor # "" => (cursor = "crosshair" <=> drawMode))

\* An explicit request to turn draw mode off, after a wall was committed
C16_Witness ==
  /\ lastEvent.type = "TOGGLE_DRAW_MODE"
  /\ lastEvent.enabled = Flag(FALSE)
  /\ cursor = "default"
  /\ ~drawMode
  /\ createdBoxes # << >>

(***************************************************************************)
(* C17.  Events are handled one at a time in arrival order.  A pointer     *)
(* move that arrives right after a click builds its preview from the start *)
(* point left by that click: the first-click point, the snapped end of the *)
(* wall just committed, or the start point the click left unchanged when   *)
(* it committed nothing; never from an earlier start point.                *)
(***************************************************************************)
LastBox == createdBoxes[Len(createdBoxes)]

C17_MoveSeesPrecedingClick ==
  /\ [][ (PendingMove /\ ~MoveTooShort /\ lastEvent.type = "INPUT_MOUSE_DOWN")
         => /\ previewMesh' # Null
            /\ pointsAreEqual(getBoxStartPoint(previewMesh'), startPosition)
            /\ (log = << "Start position set" >>)
                 => startPosition = getGroundPosition(lastEvent.hit)
            /\ (log = << "Box created, continuing from endpoint" >>)
                 => /\ pointsAreEqual(startPosition, getBoxEndPoint(LastBox))
                    /\ pointsAreEqual(getBoxStartPoint(previewMesh'),
                                      getBoxEndPoint(LastBox))
                    /\ ~pointsAreEqual(getBoxStartPoint(previewMesh'),
                                       getBoxStartPoint(LastBox)) ]_vars
  /\ [][ (/\ lastEvent'.type = "INPUT_MOUSE_DOWN"
          /\ lastEvent'.button # 2
          /\ Pending
          /\ createdBoxes' = createdBoxes)
         => startPosition' = startPosition ]_vars

\* A preview drawn from the end of the wall committed last
C17_Witness ==
  /\ lastEvent.type = "INPUT_MOUSE_MOVE"
  /\ Pending
  /\ previewMesh # Null
  /\ createdBoxes # << >>
  /\ pointsAreEqual(getBoxStartPoint(previewMesh), getBoxEndPoint(LastBox))
  /\ ~pointsAreEqual(getBoxStartPoint(previewMesh), getBoxStartPoint(LastBox))

(***************************************************************************)
(* C18.  A candidate that shares an endpoint, within the tolerance and on  *)
(* either of its ends, with a committed wall is never rejected because of  *)
(* that wall, whether the two are otherwise apart or overlap along their   *)
(* length beyond the shared point (a segment doubling back): a rejected    *)
(* click always has a wall that shares no endpoint with the candidate and  *)
(* meets its footprint, and a candidate sharing an endpoint with every     *)
(* committed wall is committed.                                            *)
(***************************************************************************)
C18_SharedEndpointExempt ==
  [][ (PendingClick /\ ~ClickTooShort)
      => /\ (createdBoxes' = createdBoxes)
              => Overlapped(startPosition, CandidateEnd, createdBoxes)
         /\ (\A i \in 1..Len(createdBoxes) :
                SharesEndpoint(startPosition, CandidateEnd,
                               getBoxStartPoint(createdBoxes[i]),
                               getBoxEndPoint(createdBoxes[i])))
              => /\ Len(createdBoxes') = Len(createdBoxes) + 1
                 /\ log' = << "Box created, continuing from endpoint" >>
    ]_vars

\* The second wall doubles back over the whole length of the first
C18_Witness ==
  /\ Len(createdBoxes) = 2
  /\ log = << "Box created, continuing from endpoint" >>
  /\ pointsAreEqual(getBoxStartPoint(createdBoxes[2]),
                    getBoxEndPoint(createdBoxes[1]))
  /\ pointsAreEqual(getBoxEndPoint(createdBoxes[2]),
                    getBoxStartPoint(createdBoxes[1]))
  /\ Inside(Footprint(createdBoxes[1]), createdBoxes[2].position)

(***************************************************************************)
(* C19.  Overlap detection is symmetric.  For the candidate of every       *)
(* pending click and every committed wall, checking the candidate against  *)
(* the wall alone gives the same verdict as checking the wall, taken as    *)
(* candidate, against the candidate's box alone; the endpoint exemption    *)
(* and the rectangle test each agree in the two directions.                *)
(***************************************************************************)
SymmetricPair(start, end, box, candidateBox) ==
  LET boxStart == getBoxStartPoint(box)
      boxEnd == getBoxEndPoint(box)
  IN  /\ checkWallIntersection(start, end, << box >>)
           = checkWallIntersection(boxStart, boxEnd, << candidateBox >>)
      /\ SharesEndpoint(start, end, boxStart, boxEnd)
           = SharesEndpoint(boxStart, boxEnd, start, end)
      /\ rectanglesIntersect(getWallCorners(start, end),
                             getWallCorners(boxStart, boxEnd))
           = rectanglesIntersect(getWallCorners(boxStart, boxEnd),
                                 getWallCorners(start, end))

C19_Symmetric ==
  [][ (PendingClick /\ ~ClickTooShort)
      => \A i \in 1..Len(createdBoxes) :
            SymmetricPair(startPosition, CandidateEnd, createdBoxes[i],
                          BoxBetween(startPosition, ClickPoint)) ]_vars

\* A click was rejected, and the wall that refused it is refused in turn
\* when it is the candidate and the click's segment the committed wall
C19_Witness ==
  /\ lastEvent.type = "INPUT_MOUSE_DOWN"
  /\ log = << "Cannot create wall: intersects with existing wall",
              "Wall creation failed, keeping current start position" >>
  /\ \E i \in 1..Len(createdBoxes) :
        /\ checkWallIntersection(
             startPosition,
             snappedEnd(startPosition, getGroundPosition(lastEvent.hit)),
             << createdBoxes[i] >>)
        /\ checkWallIntersection(
             getBoxStartPoint(createdBoxes[i]), getBoxEndPoint(createdBoxes[i]),
             << BoxBetween(startPosition, getGroundPosition(lastEvent.hit)) >>)

(***************************************************************************)
(* C20.  Two parallel segments that do not touch and share no endpoint,    *)
(* their centre lines further apart than the wall thickness, are both      *)
(* accepted: with committed walls all parallel to the candidate, further   *)
(* from its centre line than the thickness and sharing no endpoint with    *)
(* it, the click commits the candidate and the registry grows by one.      *)
(***************************************************************************)
\* The point p lies further than d from the line through a and b
FurtherThan(a, b, p, d) ==
  Abs(Cross(a, b, p)) > d * (Sqrt((b.x - a.x) * (b.x - a.x)
                                   + (b.z - a.z) * (b.z - a.z)) + 1)

ParallelApart(start, end, box) ==
  /\ (snappedAngleDegrees(end.x - start.x, end.z - start.z) + box.rotation)
       % 180 = 0
  /\ FurtherThan(start, end, box.position, BOX_THICKNESS)
  /\ ~SharesEndpoint(start, end, getBoxStartPoint(box), getBoxEndPoint(box))

C20_ParallelAccepted ==
  [][ (/\ PendingClick
       /\ ~ClickTooShort
       /\ createdBoxes # << >>
       /\ \A i \in 1..Len(createdBoxes) :
             ParallelApart(startPosition, CandidateEnd, createdBoxes[i]))
      => (/\ Len(createdBoxes') = Len(createdBoxes) + 1
          /\ SubSeq(createdBoxes', 1, Len(createdBoxes)) = createdBoxes
          /\ log' = << "Box created, continuing from endpoint" >>) ]_vars

\* Two committed walls, parallel, apart and without a common endpoint
C20_Witness ==
  /\ Len(createdBoxes) = 2
  /\ lastEvent.type = "INPUT_MOUSE_DOWN"
  /\ log = << "Box created, continuing from endpoint" >>
  /\ ParallelApart(getBoxStartPoint(createdBoxes[2]),
                   getBoxEndPoint(createdBoxes[2]), createdBoxes[1])
  /\ ~FootprintsMeet(Footprint(createdBoxes[1]), Footprint(createdBoxes[2]))

(***************************************************************************)
(* C21.  Two segments that cross each other in their interiors and share   *)
(* no endpoint are rejected: when the candidate of a click crosses the     *)
(* centre line of a committed wall, each centre line having the ends of    *)
(* the other strictly on its two sides, and shares no endpoint with that   *)
(* wall, the click leaves the registry unchanged.                          *)
(***************************************************************************)
\* The segments a-b and c-d cross in their interiors
CrossInside(a, b, c, d) ==
  /\ Sign(Cross(a, b, c)) * Sign(Cross(a, b, d)) = -1
  /\ Sign(Cross(c, d, a)) * Sign(Cross(c, d, b)) = -1

Crosses(start, end, box) ==
  /\ CrossInside(start, end, getBoxStartPoint(box), getBoxEndPoint(box))
  /\ ~SharesEndpoint(start, end, getBoxStartPoint(box), getBoxEndPoint(box))

C21_CrossingRejected ==
  [][ (/\ PendingClick
       /\ ~ClickTooShort
       /\ \E i \in 1..Len(createdBoxes) :
             Crosses(startPosition, CandidateEnd, createdBoxes[i]))
      => (/\ createdBoxes' = createdBoxes
          /\ log' = << "Cannot create wall: intersects with existing wall",
                       "Wall creation failed, keeping current start position"
                    >>) ]_vars

\* A click was rejected whose segment crosses a committed wall
C21_Witness ==
  /\ lastEvent.type = "INPUT_MOUSE_DOWN"
  /\ Pending
  /\ log = << "Cannot create wall: intersects with existing wall",
              "Wall creation failed, keeping current start position" >>
  /\ lastEvent.hit # Null
  /\ \E i \in 1..Len(createdBoxes) :
        Crosses(startPosition,
                snappedEnd(startPosition, getGroundPosition(lastEvent.hit)),
                createdBoxes[i])

(***************************************************************************)
(* C30.  In every reachable state the orbit camera controls are enabled    *)
(* exactly when draw mode is off: an event that turns draw mode on         *)
(* disables them, an event that turns it off (toggle request, draw-mode    *)
(* key, secondary click) enables them again.                               *)
(***************************************************************************)
C30_ControlsIffIdle == controlsEnabled <=> ~drawMode

\* Draw mode left by a secondary click, the controls enabled again
C30_Witness ==
  /\ lastEvent.type = "INPUT_MOUSE_DOWN"
  /\ lastEvent.button = 2
  /\ log = << "Draw mode disabled" >>
  /\ controlsEnabled
  /\ ~drawMode

(***************************************************************************)
(* C22.  Grid snap is idempotent: the raw hit rounded on each axis to the  *)
(* nearest multiple of GRID_STEP, and that result snapped again, are the   *)
(* same point, for every input point.                                      *)
(***************************************************************************)
C22_GridSnapIdempotent ==
  /\ \A i \in 1..Len(gridded) : gridded[i] = gridded[1]
  /\ gridded # << >> => OnGrid(gridded[1]) /\ NearestTo(gridded[1], rawHit)

\* The snap applied twice to a hit off the grid, on a tie of the rounding
C22_Witness ==
  /\ Len(gridded) >= 2
  /\ gridded[1] # rawHit
  /\ rawHit.x = -2950
  /\ gridded[2].x = -2900

(***************************************************************************)
(* C23.  For a start point and an end point at least MIN_LENGTH apart,     *)
(* angle snap yields an end point whose direction from the start is a      *)
(* multiple of 45 degrees, the one nearest to the raw direction; angle     *)
(* snap applied again to the start and the snapped end returns the same    *)
(* end point, to within one rounding unit of the arithmetic on each axis;  *)
(* every preview and every committed wall is rotated by a multiple of 45   *)
(* degrees.                                                                *)
(***************************************************************************)
\* The direction from a to b is along an axis or a diagonal
Aligned(a, b) ==
  \/ b.x = a.x
  \/ b.z = a.z
  \/ Abs(b.x - a.x) = Abs(b.z - a.z)

\* The eight directions at multiples of 45 degrees
Directions == { Pt(x, z) : x \in {-1, 0, 1}, z \in {-1, 0, 1} } \ { Pt(0, 0) }

\* Among the eight directions, the direction from a to b makes the smallest
\* angle with the direction from a to p: its cosine with it is the largest
NearestDirection(a, p, b) ==
  LET u == Pt(Sign(b.x - a.x), Sign(b.z - a.z))
      d == Pt(p.x - a.x, p.z - a.z)
      cosU == Dot(d, u)
  IN  /\ cosU > 0
      /\ \A v \in Directions :
            \/ Dot(d, v) <= 0
            \/ cosU * cosU * Dot(v, v) >= Dot(d, v) * Dot(d, v) * Dot(u, u)

SamePoint(p, q) == Abs(p.x - q.x) <= 1 /\ Abs(p.z - q.z) <= 1

C23_AngleSnap ==
  /\ \A i \in 1..Len(angled) :
        /\ (angled[i].end # Null)
             <=> ~LengthBelow(angled[i].from.x - origin.x,
                              angled[i].from.z - origin.z, MIN_LENGTH)
        /\ angled[i].end # Null
             => /\ Aligned(origin, angled[i].end)
                /\ NearestDirection(origin, angled[i].from, angled[i].end)
                /\ Len(angled[i].boxes) = 1
                /\ angled[i].boxes[1].rotation % 45 = 0
                /\ i > 1 => SamePoint(angled[i].end, angled[i - 1].end)
  /\ preview # Null => preview.rotation % 45 = 0

\* A direction off the axes and diagonals was snapped to a diagonal, the
\* snap was applied again, and the preview of the same input was built
C23_Witness ==
  /\ Len(angled) >= 2
  /\ angled[2].end # Null
  /\ ~Aligned(origin, angled[1].from)
  /\ Abs(angled[1].end.x - origin.x) = Abs(angled[1].end.z - origin.z)
  /\ preview # Null

(***************************************************************************)
(* C24.  Angle snap preserves length: for a start point and an end point   *)
(* at distance L >= MIN_LENGTH, the snapped end point is at distance L     *)
(* from the start, and the length stored in the committed wall is L and    *)
(* is the distance between its start and its snapped end; distances agree  *)
(* to within one rounding unit of the arithmetic.                          *)
(***************************************************************************)
Distance(a, b) ==
  Sqrt((b.x - a.x) * (b.x - a.x) + (b.z - a.z) * (b.z - a.z))

C24_LengthPreserved ==
  \A i \in 1..Len(angled) :
    angled[i].end # Null
      => /\ Abs(Distance(origin, angled[i].end)
                - Distance(origin, angled[i].from)) <= 1
         /\ angled[i].boxes[1].width = Distance(origin, angled[i].from)
         /\ Abs(angled[i].boxes[1].width
                - Distance(origin, angled[i].end)) <= 1
         /\ Abs(angled[i].boxes[1].width
                - Distance(getBoxStartPoint(angled[i].boxes[1]),
                           getBoxEndPoint(angled[i].boxes[1]))) <= 2

\* A wall committed along an axis for a raw direction off the axes, longer
\* than either coordinate difference of the raw end point
C24_Witness ==
  /\ angled # << >>
  /\ angled[1].end # Null
  /\ ~Aligned(origin, angled[1].from)
  /\ angled[1].end.z = origin.z
  /\ angled[1].boxes[1].width > Abs(angled[1].from.x - origin.x)
  /\ angled[1].boxes[1].width = Abs(angled[1].end.x - origin.x)

(***************************************************************************)
(* Vocabulary of the EventBus properties.                                  *)
(***************************************************************************)
\* The step runs the callback of a registration
Invokes == busEvent'.op = "invoke" /\ frames # << >>

\* The step is the return of the outermost call of emit
EmitReturns == frames # << >> /\ frames' = << >>

(***************************************************************************)
(* C25.  The unsubscribe function returned by on and by once removes that  *)
(* listener: no call of emit made after the unsubscribe function was       *)
(* called invokes the listener, and the other listeners are unaffected:    *)
(* they stay registered in their order, and an emit invokes every listener *)
(* that was registered when it began and was not itself unsubscribed.      *)
(***************************************************************************)
C25_UnsubscribeRemovesOnly ==
  /\ [][ Invokes => busEvent'.registration \notin Top.gone ]_vars
  /\ [][ (busEvent'.op = "unsubscribe" /\ frames = << >>)
         => \E r \in Registrations :
              /\ r \in unsubscribed'
              /\ Registered(BusNow, r.type) \ {r}
                   = Registered([listeners |-> listeners',
                                 onceListeners |-> onceListeners'], r.type)
       ]_vars
  /\ [][ EmitReturns
         => \A r \in atStart : r \notin unsubscribed' => r \in invoked' ]_vars

(***************************************************************************)
(* C26.  A listener registered with once is invoked at most once, also     *)
(* when a listener calls emit for the same event type during the emit, and *)
(* it is invoked by the first emit of its event type unless its            *)
(* unsubscribe function was called before: when that emit returns, every   *)
(* once listener it found registered has been invoked or unsubscribed, and *)
(* none is registered any more.                                            *)
(***************************************************************************)
C26_OnceAtMostOnce ==
  /\ [](\A e \in EventTypes : \A c \in Callbacks : fired[e][c] <= 1)
  /\ [][ EmitReturns
         => /\ \A r \in atStart :
                 (r.kind = "once" /\ r \notin unsubscribed') => r \in invoked'
            /\ onceListeners'[frames[1].type] = << >> ]_vars

\* A listener's re-entrant emit has run the once listener, while the outer
\* emit is still in its loop over the regular listeners
C26_Witness ==
  /\ Len(frames) = 2
  /\ frames[1].phase = "regular"
  /\ frames[2].phase = "once"
  /\ frames[2].index = 2
  /\ fired[frames[2].type][frames[2].copy[1]] = 1
  /\ onceListeners[frames[1].type] = << >>

C28_NoCallbackAfterDetach ==
  [][ stackEvent'.op = "emit"
      => \A layer \in LayerObjects :
           detached[layer] => Subscription(layer) \notin invoked' ]_vars

(***************************************************************************)
(* C29.  In every state of the LayerStack the regular layers precede the   *)
(* overlays, the regular layers are in the order of their pushes and so    *)
(* are the overlays, and layerInsertIndex is the number of regular layers, *)
(* whatever the sequence of pushLayer, pushOverlay, popLayer, popOverlay   *)
(* and clear.  popLayer of a layer that is not a regular layer of the      *)
(* stack (an overlay, or a layer not in the stack) and popOverlay of a     *)
(* layer that is not an overlay of the stack change nothing and call no    *)
(* onDetach.                                                               *)
(***************************************************************************)
PushedAsLayer == { i \in 1..Len(pushedAs) : pushedAs[i].kind = "layer" }

PushedAsOverlay == { i \in 1..Len(pushedAs) : pushedAs[i].kind = "overlay" }

IsRegular(layer) == \E i \in PushedAsLayer : layers[i] = layer

IsOverlay(layer) == \E i \in PushedAsOverlay : layers[i] = layer

C29_StackOrder ==
  /\ [](/\ Len(pushedAs) = Len(layers)
        /\ \A i \in PushedAsLayer : \A j \in PushedAsOverlay : i < j
        /\ \A i, j \in 1..Len(layers) :
             (i < j /\ pushedAs[i].kind = pushedAs[j].kind)
               => pushedAs[i].stamp < pushedAs[j].stamp
        /\ layerInsertIndex = Cardinality(PushedAsLayer))
  /\ [][ (\/ stackEvent'.op = "popLayer" /\ ~IsRegular(stackEvent'.layer)
          \/ stackEvent'.op = "popOverlay" /\ ~IsOverlay(stackEvent'.layer))
         => /\ ~stackEvent'.onDetach
            /\ layers' = layers
            /\ layerInsertIndex' = layerInsertIndex
            /\ unsubscribers' = unsubscribers
            /\ listeners' = listeners
            /\ detached' = detached ]_vars

\* Two regular layers below an overlay that was pushed before the second of
\* them, and popLayer was just called with the overlay
C29_Witness ==
  /\ Len(layers) = 3
  /\ layerInsertIndex = 2
  /\ pushedAs[3].kind = "overlay"
  /\ pushedAs[2].stamp > pushedAs[3].stamp
  /\ ~IsRegular(layers[3])
  /\ stackEvent = [op |-> "popLayer", layer |-> layers[3], onDetach |-> FALSE]

(***************************************************************************)
(* C33.  The overlap check rejects a candidate if and only if some         *)
(* committed wall shares no endpoint with it (within the tolerance on both *)
(* axes) and the projection intervals of the two footprint rectangles      *)
(* overlap on all four tested axes, the two edge normals of each           *)
(* rectangle; with an empty registry every candidate of sufficient length  *)
(* is accepted.                                                            *)
(***************************************************************************)
\* The interval a rectangle covers on an axis
Lowest(rect, axis) ==
  CHOOSE v \in { Dot(rect[i], axis) : i \in 1..4 } :
    \A j \in 1..4 : v <= Dot(rect[j], axis)

Highest(rect, axis) ==
  CHOOSE v \in { Dot(rect[i], axis) : i \in 1..4 } :
    \A j \in 1..4 : v >= Dot(rect[j], axis)

IntervalsOverlap(rect1, rect2, axis) ==
  /\ Lowest(rect1, axis) <= Highest(rect2, axis)
  /\ Lowest(rect2, axis) <= Highest(rect1, axis)

\* The perpendiculars of the first two edges of a rectangle
EdgeNormals(rect) ==
  { Pt(rect[i].z - rect[i + 1].z, rect[i + 1].x - rect[i].x) : i \in 1..2 }

Near(p, q) == Abs(p.x - q.x) < TOLERANCE /\ Abs(p.z - q.z) < TOLERANCE

Refuses(start, end, box) ==
  LET boxStart == getBoxStartPoint(box)
      boxEnd == getBoxEndPoint(box)
  IN  /\ ~Near(start, boxStart) /\ ~Near(start, boxEnd)
      /\ ~Near(end, boxStart) /\ ~Near(end, boxEnd)
      /\ \A axis \in EdgeNormals(getWallCorners(start, end))
                       \cup EdgeNormals(Footprint(box)) :
           IntervalsOverlap(getWallCorners(start, end), Footprint(box), axis)

RejectedLog ==
  << "Cannot create wall: intersects with existing wall",
     "Wall creation failed, keeping current start position" >>

C33_RejectedIffAllAxesOverlap ==
  [][ (PendingClick /\ ~ClickTooShort)
      => /\ (log' = RejectedLog /\ createdBoxes' = createdBoxes)
              <=> \E i \in 1..Len(createdBoxes) :
                     Refuses(startPosition, CandidateEnd, createdBoxes[i])
         /\ (log' # RejectedLog)
              => /\ log' = << "Box created, continuing from endpoint" >>
                 /\ Len(createdBoxes') = Len(createdBoxes) + 1
         /\ createdBoxes = << >> => log' # RejectedLog ]_vars

\* A candidate was rejected by a wall whose projections overlap its own on
\* the four axes, while another committed wall is separated from it
C33_Witness ==
  /\ lastEvent.type = "INPUT_MOUSE_DOWN"
  /\ log = RejectedLog
  /\ Len(createdBoxes) = 2
  /\ \E i, j \in 1..2 :
        /\ Refuses(startPosition,
                   snappedEnd(startPosition, getGroundPosition(lastEvent.hit)),
                   createdBoxes[i])
        /\ ~Refuses(startPosition,
                    snappedEnd(startPosition, getGroundPosition(lastEvent.hit)),
                    createdBoxes[j])

(***************************************************************************)
(* C34.  Grid snapping precedes all other logic.  The start point stored   *)
(* by a first click is a grid point next to the hit; on every pointer move *)
(* and second click the outcome is the one the length test, the angle snap *)
(* and the overlap check give for the stored start point and a grid point  *)
(* next to the hit, so that the end point they are fed, and the angle snap *)
(* is applied to, has both coordinates multiples of GRID_STEP.             *)
(***************************************************************************)
\* The grid points of the cell of a hit point that are nearest to it
GridAround(hit) ==
  { p \in { Pt(x, z) : x \in { hit.x - (hit.x % GRID_STEP),
                                hit.x - (hit.x % GRID_STEP) + GRID_STEP },
                       z \in { hit.z - (hit.z % GRID_STEP),
                                hit.z - (hit.z % GRID_STEP) + GRID_STEP } } :
      OnGrid(p) /\ NearestTo(p, hit) }

\* The registry and start point a second click leaves when it is fed end
AfterClickAt(end) ==
  /\ createdBoxes' = createFinalBox(Cur, startPosition, end).state.createdBoxes
  /\ startPosition' =
       IF createFinalBox(Cur, startPosition, end).result # Null
       THEN createFinalBox(Cur, startPosition, end).result
       ELSE startPosition

C34_GridSnapFirst ==
  [][ /\ (PrimaryClick /\ Armed /\ lastEvent'.hit # Null)
         => startPosition' \in GridAround(lastEvent'.hit)
      /\ PendingClick
         => \E end \in GridAround(lastEvent'.hit) : AfterClickAt(end)
      /\ (PointerMove /\ Pending /\ lastEvent'.hit # Null)
         => \E end \in GridAround(lastEvent'.hit) :
               previewMesh' =
                 updatePreviewBox(Cur, startPosition, end).previewMesh ]_vars

\* A preview drawn to the grid point next to a hit that is off the grid,
\* from a start point that a click off the grid stored
C34_Witness ==
  /\ lastEvent.type = "INPUT_MOUSE_MOVE"
  /\ lastEvent.hit # Null
  /\ ~OnGrid(lastEvent.hit)
  /\ Pending
  /\ OnGrid(startPosition)
  /\ createdBoxes = << >>
  /\ previewMesh # Null
  /\ \E end \in GridAround(lastEvent.hit) :
        previewMesh = BoxBetween(startPosition, end)

(***************************************************************************)
(* C35.  In every reachable state a live preview exists only if a start    *)
(* point is set, and a start point is set only if draw mode is on: Idle    *)
(* has neither start point nor preview.                                    *)
(***************************************************************************)
C35_PreviewNeedsStartNeedsMode ==
  /\ previewMesh # Null => startPosition # Null
  /\ startPosition # Null => drawMode
  /\ Idle => (startPosition = Null /\ previewMesh = Null)

\* A preview is live, drawn from the end of a committed wall: the start
\* point is set and draw mode is on
C35_Witness ==
  /\ lastEvent.type = "INPUT_MOUSE_MOVE"
  /\ previewMesh # Null
  /\ startPosition # Null
  /\ drawMode
  /\ Len(createdBoxes) = 1

(***************************************************************************)
(* C36.  When two segments are committed by successive accepted clicks     *)
(* with only pointer moves and rejected or ignored clicks between them,    *)
(* the later segment starts exactly at the end point of the earlier one:   *)
(* all along such a chain the start point is that end point, the later     *)
(* wall's start is the earlier wall's end, and every candidate drawn from  *)
(* it is exempt from the overlap test against the wall committed last.     *)
(***************************************************************************)
C36_ChainedStart ==
  /\ [](chainedFrom # Null
          => /\ Pending
             /\ startPosition = chainedFrom
             /\ createdBoxes # << >>
             /\ pointsAreEqual(chainedFrom, getBoxEndPoint(LastBox)))
  /\ [][ (PendingClick /\ ~ClickTooShort /\ chainedFrom # Null)
         => /\ SharesEndpoint(startPosition, CandidateEnd,
                              getBoxStartPoint(LastBox),
                              getBoxEndPoint(LastBox))
            /\ ~checkWallIntersection(startPosition, CandidateEnd,
                                      << LastBox >>)
            /\ Len(createdBoxes') > Len(createdBoxes)
                 => pointsAreEqual(
                      getBoxStartPoint(createdBoxes'[Len(createdBoxes')]),
                      getBoxEndPoint(LastBox)) ]_vars

\* The second wall of a chain has just been committed from the end of the
\* first, whose footprint it meets
C36_Witness ==
  /\ chainedFrom # Null
  /\ Len(createdBoxes) = 2
  /\ log = << "Box created, continuing from endpoint" >>
  /\ pointsAreEqual(getBoxStartPoint(createdBoxes[2]),
                    getBoxEndPoint(createdBoxes[1]))
  /\ FootprintsMeet(Footprint(createdBoxes[1]), Footprint(createdBoxes[2]))
  /\ startPosition = chainedFrom

(***************************************************************************)
(* C37.  The overlap test treats mere contact as overlap.  A candidate is  *)
(* rejected when some committed wall shares no endpoint with it and the    *)
(* two footprint rectangles only touch: their projection intervals overlap *)
(* on the four axes and meet in a single value on one of them, as for      *)
(* parallel walls one thickness apart or a wall ending on the side face of *)
(* another.                                                                *)
(***************************************************************************)
MeetInOneValue(rect1, rect2, axis) ==
  \/ Highest(rect1, axis) = Lowest(rect2, axis)
  \/ Highest(rect2, axis) = Lowest(rect1, axis)

TouchOnly(rect1, rect2) ==
  /\ \A axis \in EdgeNormals(rect1) \cup EdgeNormals(rect2) :
       IntervalsOverlap(rect1, rect2, axis)
  /\ \E axis \in EdgeNormals(rect1) \cup EdgeNormals(rect2) :
       MeetInOneValue(rect1, rect2, axis)

TouchedBy(start, end, box) ==
  /\ ~SharesEndpoint(start, end, getBoxStartPoint(box), getBoxEndPoint(box))
  /\ TouchOnly(getWallCorners(start, end), Footprint(box))

C39_FlaggedToggleIdempotent ==
  [][ /\ (ToggleEvent(Flag(TRUE)) /\ drawMode)
         => /\ UNCHANGED << drawMode, startPosition, previewMesh,
                            createdBoxes, controlsEnabled >>
            /\ cursor' = "crosshair"
            /\ log' = << "Draw mode enabled" >>
      /\ (ToggleEvent(Flag(FALSE)) /\ Idle)
         => /\ UNCHANGED << drawMode, startPosition, previewMesh,
                            createdBoxes, controlsEnabled >>
            /\ cursor' = "default"
            /\ log' = << "Draw mode disabled" >> ]_vars

\* A toggle event with enabled = true has just been handled in Pending: the
\* preview and the start point are still there
C39_Witness ==
  /\ lastEvent = [type |-> "TOGGLE_DRAW_MODE", enabled |-> Flag(TRUE)]
  /\ log = << "Draw mode enabled" >>
  /\ Pending
  /\ previewMesh # Null
  /\ createdBoxes # << >>

(***************************************************************************)
(* C38.  During one emit every regular listener that is registered for the *)
(* event type when the emit starts, and has not been unsubscribed before   *)
(* its turn, is invoked exactly once, in subscription order, before any    *)
(* once listener, also when a listener unsubscribes itself or another      *)
(* listener during the emit: when the emit leaves its loop over the        *)
(* regular listeners, the listeners it has run are, each once and in their *)
(* order, those it found at its start less the ones unsubscribed since.    *)
(***************************************************************************)
\* The step ends the loop over the regular listeners of the innermost emit
RegularLoopEnds ==
  /\ frames # << >>
  /\ Top.phase = "regular"
  /\ busEvent'.op \in {"copy", "return"}

\* seq without the elements outside the set keep
RECURSIVE Only(_, _)
Only(seq, keep) ==
  IF seq = << >> THEN << >>
  ELSE IF Head(seq) \in keep
       THEN << Head(seq) >> \o Only(Tail(seq), keep)
       ELSE Only(Tail(seq), keep)

\* The regular listeners an emit found whose unsubscribe function was not
\* called since it started
StillSubscribed(frame) ==
  { c \in Range(frame.start) :
      Registration("on", frame.type, c) \notin unsubscribed' \ frame.gone }

C38_RegularListenersInOrder ==
  /\ [][ RegularLoopEnds
         => /\ Only(Top.ran, StillSubscribed(Top))
                 = Only(Top.start, StillSubscribed(Top))
            /\ Top.ran = Only(Top.start, Range(Top.ran)) ]_vars
  /\ [][ (Invokes /\ busEvent'.registration.kind = "once")
         => /\ Top.phase = "once"
            /\ Top.index > 0 ]_vars

(***************************************************************************)
(* C40.  The flag behind the editor's draw-mode button equals the engine's *)
(* draw mode after every sequence of button presses, d or D key presses    *)
(* and secondary clicks, so that every button press changes the engine's   *)
(* draw mode.                                                              *)
(***************************************************************************)
C40_ButtonFlagIsMode ==
  /\ [](isDrawMode = drawMode)
  /\ [][ isDrawMode' # isDrawMode => drawMode' # drawMode ]_vars

\* The events and invocations of `loud` that `trace` holds while `quiet`,
\* where each call in `ends` begins a quiet stretch and startAnimationLoop
\* ends it
RECURSIVE Breaks(_, _, _, _)
Breaks(trace, quiet, ends, loud) ==
  IF trace = << >> THEN 0
  ELSE LET what == Head(trace)
           then == IF what \in ends THEN TRUE
                   ELSE IF what = "startAnimationLoop" THEN FALSE
                   ELSE quiet
       IN  (IF quiet /\ what \in loud THEN 1 ELSE 0)
           + Breaks(Tail(trace), then, ends, loud)

BusEvents ==
  {"INPUT_KEY_DOWN", "INPUT_MOUSE_DOWN", "INPUT_MOUSE_MOVE",
   "VIEWPORT_RESIZE", "ANIMATION_FRAME"}

(***************************************************************************)
(* C31.  After dispose has returned the platform emits no event on the bus *)
(* (INPUT_KEY_DOWN, INPUT_MOUSE_DOWN, INPUT_MOUSE_MOVE, VIEWPORT_RESIZE,   *)
(* ANIMATION_FRAME) and does not invoke the animation callback again.      *)
(***************************************************************************)
C31_SilentAfterDispose ==
  [][ Breaks(did', disposed, {"dispose"}, BusEvents \cup {"callback"}) = 0 ]_vars

(***************************************************************************)
(* C32.  After stopAnimationLoop has returned the animation callback is    *)
(* not invoked again and no ANIMATION_FRAME is emitted, whatever calls of  *)
(* startAnimationLoop and stopAnimationLoop came before: more than one     *)
(* start, or a stop from inside the callback.                              *)
(***************************************************************************)
C32_SilentAfterStop ==
  [][ Breaks(did', stopped, {"stopAnimationLoop"},
             {"ANIMATION_FRAME", "callback"}) = 0 ]_vars

====
